---------------------------- MODULE Spec2Model ----------------------------
(***************************************************************************)
(* A model of hiqlite: the RocksDB log store (writer worker, its callers   *)
(* and crash/restart), the leader-side stream server with its per-client   *)
(* response buffer, and the client's leader-change retry.                  *)
(*                                                                         *)
(* Each component has its own specification (SpecLog, SpecStream,          *)
(* SpecClient); the variables of the other components stay at their        *)
(* initial values.                                                         *)
(***************************************************************************)
EXTENDS Integers, Sequences, FiniteSets, TLC

(***************************************************************************)
(* Bounds of the model.                                                    *)
(***************************************************************************)
\* highest log index the consensus layer appends
MaxIndex == 2
\* highest vote (term) the consensus layer saves
MaxVote == 1
\* number of process crashes followed by a restart
MaxCrash == 1
\* entries handed to one append call
MaxBatch == 2
\* connections of one client the stream server handles at a time
MaxConn == 1
\* distinct request ids the client uses
MaxReq == 2
\* request frames the stream server reads in total
MaxFrames == 2
\* tasks calling DbClient::execute on clones of one client handle
MaxCallers == 2
\* node ids of the cluster
MaxNode == 2
\* execute calls made on the client handle, by all tasks together
MaxCalls == 2
\* requests of different kinds one client has on the stream at a time
MaxPending == 2

\* bytes of a key of "logs" (8 in the code, id_to_bin of a u64)
KeyBytes == 2

\* tasks that watch the shutdown channel
MaxTasks == 4

\* management requests one node handles at a time
MaxHandlers == 2

\* requests the cache Raft group commits
MaxCacheOps == 3

\* commands the SQL Raft group commits
MaxSqlOps == 3

(***************************************************************************)
(* Program constants.                                                      *)
(***************************************************************************)
\* flume::bounded::<ActionWrite>(2)
WriterChanCap == 2
\* flume::bounded(2) of LogStoreRocksdb::append
EntryChanCap == 2

\* the values of a byte of a key (Vec<u8>)
U8 == 256

VARIABLES
    \* ---- log store: the RocksDB handle ----
    db,            \* the state reads observe (memtable + WAL + files)
    recoverable,   \* the states a crash can leave: every state since the last WAL sync
    \* ---- log store: writer worker ----
    wq,            \* the ActionWrite channel
    wpc,           \* position of the writer worker
    wcur,          \* the action the writer is handling
    wres,          \* `res` of the handler
    wtail,         \* what the Append handler still does after its write loop
    ech,           \* the (key, value) sub-channel of the current append
    echRx,         \* TRUE while the receiver of that sub-channel is alive
    ack,           \* the oneshot of the current action: "none", "ok" or "err"
    \* ---- log store: the consensus layer calling it ----
    cpc,           \* position of the caller
    cop,           \* the call in progress
    ctodo,         \* what append still has to send on the sub-channel
    \* ---- log store: observations ----
    hist,          \* events of the current append, in the order the writer did them
    appWriteFailed,\* a put_cf of the current append failed
    appRet,        \* what the last append call returned
    flushedEntries,\* entries whose append was acked Ok and whose flushed-callback ran
    ackedVote,     \* the last vote for which save_vote returned Ok
    ackedPurge,    \* the highest k for which purge returned Ok
    crashes,       \* number of crashes so far
    atCrash,       \* what had been acknowledged when the process last crashed
    \* ---- stream server: state.client_buffers[client_id] ----
    buffer,        \* the serialized responses held for the client, oldest first
    \* ---- stream server: the connections of that client ----
    cst,           \* position of handle_socket_concurrent, per connection
    creader,       \* the read loop of the connection: "none", "run" or "done"
    cwriter,       \* the writer task: "none", "w1" (write loop), "w2" (drain loop), "done"
    rxw,           \* the tx_write/rx_write channel: request ids, 0 for WsWriteMsg::Break
    inflight,      \* request handlers spawned and not finished, per request id
    \* ---- stream server: observations ----
    dispatched,    \* request frames read and dispatched, per request id
    applied,       \* successful raft.client_write calls, per request id
    produced,      \* responses handed to the writer task, per request id
    written,       \* responses written to a socket, per request id
    redelivered,   \* request ids whose response was written while emptying the buffer
    resend,        \* per connection: the request ids the client sends again on it
    bufseq,        \* for each payload in the buffer: its number in the order of buffering
    nsaved,        \* responses the writer tasks have put into the buffer
    drained,       \* per connection: the numbers of the payloads written from the buffer
    hs,            \* per connection: the result of HandshakeSecret::server
    close_frame,   \* per connection: the reason of the close frame handed to write_frame
    read_break,    \* per connection: why the read loop has ended
    write_err,     \* per connection: whether the writer task's write_frame has failed
                   \* (the three until handle_write.await returns)
    \* ---- client: one DbClient shared by its callers ----
    leader,        \* the node id in DbClient::leader
    tx_client,     \* the LeaderChange messages sent to the stream manager
    callpc,        \* position of each caller inside execute
    calls,         \* execute calls each caller has started
    attempts,      \* execute_req calls of the caller's current execute
    first_err,     \* the Err of the first execute_req
    has_changed,   \* the local of was_leader_update_error
    ret,           \* what execute returned
    built,         \* TRUE once DbClient::new or DbClient::new_local has run
    state_id,      \* AppState::id of DbClient::state, 0 for a remote client (None)
    request_id,    \* DbClient::request_id, the AtomicUsize
    stream_reqs,   \* the request ids of the ClientStreamReq::Execute sent on tx_client
    local_writes,  \* calls of the local raft.client_write
    changes,       \* writes of the leader pointer that changed its node id
    leader_addr,   \* the address in DbClient::leader
    swr_i,         \* per caller: `i` of send_with_retry
    \* ---- stream server: the payload kind of a request and of its response ----
    pending,       \* per request on the stream: its payload variant and its response
    \* ---- log store: reader worker and the task reading through it ----
    rq,            \* the ActionRead channel
    rpc,           \* position of the reader worker
    rcur,          \* the action the reader is handling
    riter,         \* what the iterator over "logs" still yields
    rsnap,         \* the store as the iterator sees it
    rch,           \* the ack channel of the action: entries, -1 = Some(Err), 0 = None
    rchRx,         \* TRUE while the receiver of that channel is alive
    rmarkers,      \* end-of-stream markers sent for the action
    rcpc,          \* position of the reading task
    rres,          \* `res` of try_get_log_entries
    rret,          \* what the read returned
    \* ---- log store: the keys of the column family "logs" ----
    kpc,           \* how far the pair of ids has come: encoded, compared, decoded
    id_a,          \* an index that is stored
    id_b,          \* another one
    buf_a,         \* id_to_bin(id_a)
    buf_b,         \* id_to_bin(id_b)
    kless,         \* whether the store sorts buf_a before buf_b
    kdec,          \* bin_to_id(buf_a)
    \* ---- shutdown of a local node ----
    spc,           \* position of shutdown_execute
    sret,          \* what shutdown returned
    raft_cache,    \* the cache Raft: running or stopped
    raft_db,       \* the SQL Raft: running or stopped
    sql_writer,    \* the SQL writer: running, signalled, done
    logs_writer,   \* the log writer: running, signalled, gone
    stream_shutdown, \* ClientStreamReq::Shutdown was sent to the stream manager
    tx_shutdown,   \* the watch channel: "none", or the value it holds
    stopped,       \* the tasks that have seen the shutdown signal
    \* ---- management handlers of one node ----
    mpc,           \* per handler: idle, lock (waits for raft_lock), raft (in a Raft operation)
    mkind,         \* per handler: the handler that runs
    mbody,         \* per handler: the node ids it passes to Raft
    mret,          \* per handler: what it returned last
    raft_lock,     \* state.raft_lock: 0, or the handler that holds it
    voters,        \* the voters of the membership config
    mnodes,        \* the nodes of the membership config, learners included
    msecret,       \* per handler: whether its last request had the right X-API-Secret
    merr,          \* per handler: the Error it returned last
    m_leader,      \* raft.current_leader() of this node, 0 for None
    m_init,        \* raft.is_initialized() of this node
    \* ---- one key of one cache in a cluster ----
    cache_log,     \* the committed entries of the cache Raft group
    kvs,           \* per node: the value of the key in its cache state machine
    kv_applied,    \* per node: the entries its state machine has applied
    cache_leader,  \* the leader of the cache Raft group
    last_writer,   \* the client whose put or delete returned Ok last
    cache_ret,     \* what the last cache call returned
    cgot,          \* the client and the value of the last get, reset by a write
    \* ---- the SQL tier of a cluster ----
    sql_log,       \* the committed entries of the SQL Raft group
    sqlite,        \* per node: the database file of its state machine
    sql_applied,   \* per node: the index of the entry its state machine applied last
    sql_resp,      \* per node: the responses of its state machine, one per applied entry
    sql_leader,    \* the leader of the SQL Raft group
    sql_call,      \* the last execute or migrate call: client, call, what it returned
    qres,          \* the client and the result of the last query, reset by a write
    \* ---- the streams of remote clients at one server ----
    client_buffers, \* the keys of state.client_buffers, {} before start_node
    rc_id,         \* per client: the node_id it was created with, 0 before
    rc_st          \* per client: none, created, refused, aborted (the task panicked), open

logVars == <<db, recoverable, wq, wpc, wcur, wres, wtail, ech, echRx, ack,
             cpc, cop, ctodo, hist, appWriteFailed, appRet, flushedEntries,
             ackedVote, ackedPurge, crashes, atCrash>>

streamVars == <<buffer, cst, creader, cwriter, rxw, inflight, dispatched, applied,
                produced, written, redelivered, resend, bufseq, nsaved, drained, hs,
                close_frame, read_break, write_err>>

socketVars == <<hs, close_frame, read_break, write_err>>

clientVars == <<leader, tx_client, callpc, calls, attempts, first_err, has_changed, ret,
                built, state_id, request_id, stream_reqs, local_writes, changes,
                leader_addr, swr_i>>

payloadVars == <<pending>>

membershipVars == <<mpc, mkind, mbody, mret, raft_lock, voters, mnodes, msecret, merr,
                    m_leader, m_init>>

cacheVars == <<cache_log, kvs, kv_applied, cache_leader, last_writer, cache_ret,
               cgot>>

sqlVars == <<sql_log, sqlite, sql_applied, sql_resp, sql_leader, sql_call, qres>>

connectVars == <<client_buffers, rc_id, rc_st>>

shutdownVars == <<spc, sret, raft_cache, raft_db, sql_writer, logs_writer,
                  stream_shutdown, tx_shutdown, stopped>>

keyVars == <<kpc, id_a, id_b, buf_a, buf_b, kless, kdec>>

readerVars == <<rq, rpc, rcur, riter, rsnap, rch, rchRx, rmarkers, rcpc, rres, rret>>

\* the variables of the components added after the log store, the stream, the
\* client, the payloads, the reader and the keys
restVars == <<shutdownVars, membershipVars, cacheVars, sqlVars, connectVars>>

nonLogVars == <<streamVars, clientVars, payloadVars, readerVars, keyVars,
    shutdownVars, membershipVars, cacheVars, sqlVars, connectVars>>

nonStreamVars == <<logVars, clientVars, payloadVars, readerVars, keyVars,
    shutdownVars, membershipVars, cacheVars, sqlVars, connectVars>>

nonClientVars == <<logVars, streamVars, payloadVars, readerVars, keyVars,
    shutdownVars, membershipVars, cacheVars, sqlVars, connectVars>>

nonPayloadVars == <<logVars, streamVars, clientVars, readerVars, keyVars,
    shutdownVars, membershipVars, cacheVars, sqlVars, connectVars>>

\* the reader reads the store the writer writes
nonReaderVars == <<wq, wpc, wcur, wres, wtail, ech, echRx, ack, cpc, cop, ctodo, hist,
                   appWriteFailed, appRet, flushedEntries, ackedVote, ackedPurge,
                   crashes, atCrash, streamVars, clientVars, payloadVars, keyVars,
                   restVars>>

nonKeyVars == <<logVars, streamVars, clientVars, payloadVars, readerVars,
    shutdownVars, membershipVars, cacheVars, sqlVars, connectVars>>

nonShutdownVars == <<logVars, streamVars, clientVars, payloadVars, readerVars,
    keyVars, membershipVars, cacheVars, sqlVars, connectVars>>

nonMembershipVars == <<logVars, streamVars, clientVars, payloadVars, readerVars,
    keyVars, shutdownVars, cacheVars, sqlVars, connectVars>>

nonCacheVars == <<logVars, streamVars, clientVars, payloadVars, readerVars,
    keyVars, shutdownVars, membershipVars, sqlVars, connectVars>>

nonSqlVars == <<logVars, streamVars, clientVars, payloadVars, readerVars, keyVars,
    shutdownVars, membershipVars, cacheVars, connectVars>>

nonConnectVars == <<logVars, streamVars, clientVars, payloadVars, readerVars,
    keyVars, shutdownVars, membershipVars, cacheVars, sqlVars>>

vars == <<logVars, streamVars, clientVars, payloadVars, readerVars, keyVars,
          shutdownVars, membershipVars, cacheVars, sqlVars, connectVars>>

(***************************************************************************)
(* Helpers.                                                                *)
(***************************************************************************)
Max(S) == CHOOSE x \in S : \A y \in S : y <= x

Range(s) == {s[i] : i \in 1..Len(s)}

NoAction == [t |-> "none", from |-> 0, until |-> 0, last_log |-> 0, value |-> 0]

NoCall == [t |-> "none", arg |-> 0, entries |-> <<>>]

(***************************************************************************)
(* The RocksDB handle.  logs: the keys of column family "logs";             *)
(* last_purged and vote: the values under KEY_LAST_PURGED and KEY_VOTE of   *)
(* column family "meta" (0 = absent).  purge_deleted records the highest    *)
(* index a purge's range deletion has removed.                              *)
(***************************************************************************)
EmptyDb == [logs |-> {}, last_purged |-> 0, vote |-> 0, purge_deleted |-> 0]

\* db.put_cf(db.cf_handle("logs"), id, data)
put_cf_logs(d, idx) == [d EXCEPT !.logs = @ \cup {idx}]

\* a range deletion that spares its first key
delete_range_cf_open(d, from, until) ==
    [d EXCEPT !.logs = {i \in @ : ~(from < i /\ i < until)}]

\* db.delete_range_cf(db.cf_handle("logs"), &from, &until): removes [from, until)
delete_range_cf(d, from, until) ==
    [d EXCEPT !.logs = {i \in @ : ~(from <= i /\ i < until)}]

\* db.put_cf(db.cf_handle("meta"), KEY_LAST_PURGED, &value)
put_cf_last_purged(d, value) == [d EXCEPT !.last_purged = value]

\* db.put_cf(db.cf_handle("meta"), KEY_VOTE, &value)
put_cf_vote(d, value) == [d EXCEPT !.vote = value]

\* a write that is in the WAL but not synced: a crash may or may not keep it
Written(rec, d) == rec \cup {d}

\* a mutant of flush_wal: the sync is left out
flush_wal_skipped(rec, d) == rec \cup {d}

\* db.flush_wal(true): everything written so far survives a crash
flush_wal(rec, d) == {d}

(***************************************************************************)
(* The reader's view.                                                      *)
(***************************************************************************)
\* ActionRead::LogState
get_log_state(d) ==
    [last_log_id |-> IF d.logs = {} THEN 0 ELSE Max(d.logs),
     last_purged_log_id |-> d.last_purged]

\* ActionRead::Vote
read_vote(d) == d.vote

\* ActionRead::Logs: the stored entries with from <= index < until
read_entries(d, from, until) == {i \in d.logs : from <= i /\ i < until}

\* 0xff_ff_ff_ff_ff_ff_ff_ff in the model's index space: a key above every index
\* the consensus layer appends
U64Max == MaxIndex + 1

\* the index the consensus layer appends next
NextIndex(d) == Max(d.logs \cup {d.last_purged}) + 1

(***************************************************************************)
(* Initial state: an empty store, idle workers.                            *)
(***************************************************************************)
InitLog ==
    /\ db = EmptyDb
    /\ recoverable = {EmptyDb}
    /\ wq = <<>>
    /\ wpc = "idle"
    /\ wcur = NoAction
    /\ wres = "ok"
    /\ wtail = <<>>
    /\ ech = <<>>
    /\ echRx = FALSE
    /\ ack = "none"
    /\ cpc = "idle"
    /\ cop = NoCall
    /\ ctodo = <<>>
    /\ hist = <<>>
    /\ appWriteFailed = FALSE
    /\ appRet = "none"
    /\ flushedEntries = {}
    /\ ackedVote = 0
    /\ ackedPurge = 0
    /\ crashes = 0
    /\ atCrash = [purge |-> 0, vote |-> 0]

(***************************************************************************)
(* LogStoreRocksdb::append: the ActionAppend is sent to the writer, then    *)
(* every entry and the end-of-stream marker (0) go over the sub-channel,    *)
(* then the ack is awaited.                                                 *)
(***************************************************************************)
Entries(first, n) == [i \in 1..n |-> first + i - 1]

append(n) ==
    /\ cpc = "idle"
    /\ Len(wq) < WriterChanCap
    /\ NextIndex(db) + n - 1 <= MaxIndex
    /\ wq' = Append(wq, [NoAction EXCEPT !.t = "Append"])
    /\ cop' = [t |-> "append", arg |-> n, entries |-> Entries(NextIndex(db), n)]
    /\ ctodo' = Append(Entries(NextIndex(db), n), 0)
    /\ ech' = <<>>
    /\ echRx' = TRUE
    /\ ack' = "none"
    /\ cpc' = "app_send"
    /\ appRet' = "none"
    /\ appWriteFailed' = FALSE
    /\ UNCHANGED <<db, recoverable, wpc, wcur, wres, wtail, hist, flushedEntries,
                   ackedVote, ackedPurge, crashes, atCrash, nonLogVars>>

\* tx.send_async(..).await.map_err(..)?  : fails once the writer dropped the receiver
append_send ==
    /\ cpc = "app_send"
    /\ \/ /\ ~echRx
          /\ appRet' = "err"
          /\ cpc' = "idle"
          /\ ctodo' = <<>>
          /\ cop' = NoCall
          /\ UNCHANGED ech
       \/ /\ echRx
          /\ Len(ech) < EntryChanCap
          /\ ech' = Append(ech, Head(ctodo))
          /\ ctodo' = Tail(ctodo)
          /\ cpc' = IF Tail(ctodo) = <<>> THEN "app_wait" ELSE "app_send"
          /\ UNCHANGED <<appRet, cop>>
    /\ UNCHANGED <<db, recoverable, wq, wpc, wcur, wres, wtail, echRx, ack, hist,
                   appWriteFailed, flushedEntries, ackedVote, ackedPurge, crashes, atCrash, nonLogVars>>

\* ack_rx.await.map_err(|err| StorageIOError::write_logs(&err))?; Ok(())
\* only a dropped ack sender is an error: the Result the writer sent is discarded
append_result(a) == "ok"

append_await ==
    /\ cpc = "app_wait"
    /\ ack # "none"
    /\ appRet' = append_result(ack)
    /\ cpc' = "idle"
    /\ cop' = NoCall
    /\ ack' = "none"
    /\ UNCHANGED <<db, recoverable, wq, wpc, wcur, wres, wtail, ech, echRx, ctodo,
                   hist, appWriteFailed, flushedEntries, ackedVote, ackedPurge,
                   crashes, atCrash, nonLogVars>>

(***************************************************************************)
(* The writer worker, ActionWrite::Append.                                  *)
(***************************************************************************)
writer_append_start ==
    /\ wpc = "idle"
    /\ wq # <<>>
    /\ Head(wq).t = "Append"
    /\ wq' = Tail(wq)
    /\ wcur' = Head(wq)
    /\ wres' = "ok"
    /\ wpc' = "append"
    /\ hist' = <<>>
    /\ UNCHANGED <<db, recoverable, wtail, ech, echRx, ack, cpc, cop, ctodo,
                   appWriteFailed, appRet, flushedEntries, ackedVote, ackedPurge,
                   crashes, atCrash, nonLogVars>>

\* a mutant of AppendTail: the callback is invoked before the ack is sent
AppendTail_callback_first(res) == IF res = "ok" THEN <<"cb", "ack">> ELSE <<"ack">>

\* a mutant of AppendTail: the callback is invoked whatever the result
AppendTail_callback_always(res) == <<"ack", "cb">>

\* after the write loop: ack.send(res.clone()), then, if is_ok, callback.log_io_completed
AppendTail(res) == IF res = "ok" THEN <<"ack", "cb">> ELSE <<"ack">>

\* the indices the writer has put for the current append
Puts(h) == {h[i].i : i \in {j \in 1..Len(h) : h[j].e = "put"}}

\* while let Ok(Some((id, data))) = rx.recv() { put_cf .. }
writer_append_recv ==
    /\ wpc = "append"
    /\ ech # <<>>
    /\ LET e == Head(ech) IN
       /\ ech' = Tail(ech)
       /\ \/ /\ e = 0
             /\ wtail' = AppendTail(wres)
             /\ wpc' = "tail"
             /\ UNCHANGED <<db, recoverable, wres, hist, appWriteFailed>>
          \/ /\ e # 0
             /\ db' = put_cf_logs(db, e)
             /\ recoverable' = Written(recoverable, db')
             /\ hist' = Append(hist, [e |-> "put", i |-> e])
             /\ UNCHANGED <<wres, wtail, wpc, appWriteFailed>>
          \/ /\ e # 0
             /\ wres' = "err"
             /\ appWriteFailed' = TRUE
             /\ wtail' = AppendTail("err")
             /\ wpc' = "tail"
             /\ hist' = Append(hist, [e |-> "fail", i |-> e])
             /\ UNCHANGED <<db, recoverable>>
    /\ UNCHANGED <<wq, wcur, echRx, ack, cpc, cop, ctodo, appRet, flushedEntries,
                   ackedVote, ackedPurge, crashes, atCrash, nonLogVars>>

\* the rest of the Append arm, one step at a time; the sub-channel's receiver is
\* dropped at the end of the arm
writer_append_tail ==
    /\ wpc = "tail"
    /\ wtail # <<>>
    /\ \/ /\ Head(wtail) = "ack"
          /\ ack' = wres
          /\ hist' = Append(hist, [e |-> "ack", i |-> IF wres = "ok" THEN 1 ELSE 0])
          /\ UNCHANGED flushedEntries
       \/ /\ Head(wtail) = "cb"
          /\ hist' = Append(hist, [e |-> "cb", i |-> 0])
          /\ flushedEntries' = flushedEntries \cup Puts(hist)
          /\ UNCHANGED ack
    /\ wtail' = Tail(wtail)
    /\ wpc' = IF Tail(wtail) = <<>> THEN "idle" ELSE "tail"
    /\ echRx' = IF Tail(wtail) = <<>> THEN FALSE ELSE echRx
    /\ ech' = IF Tail(wtail) = <<>> THEN <<>> ELSE ech
    /\ wcur' = IF Tail(wtail) = <<>> THEN NoAction ELSE wcur
    /\ wres' = IF Tail(wtail) = <<>> THEN "ok" ELSE wres
    /\ UNCHANGED <<db, recoverable, wq, cpc, cop, ctodo, appWriteFailed, appRet,
                   ackedVote, ackedPurge, crashes, atCrash, nonLogVars>>

(***************************************************************************)
(* save_vote and ActionWrite::Vote.                                         *)
(***************************************************************************)
save_vote(v) ==
    /\ cpc = "idle"
    /\ Len(wq) < WriterChanCap
    /\ v > db.vote
    /\ wq' = Append(wq, [NoAction EXCEPT !.t = "Vote", !.value = v])
    /\ cop' = [t |-> "vote", arg |-> v, entries |-> <<>>]
    /\ ack' = "none"
    /\ cpc' = "vote_wait"
    /\ appRet' = "none"
    /\ appWriteFailed' = FALSE
    /\ UNCHANGED <<db, recoverable, wpc, wcur, wres, wtail, ech, echRx, ctodo, hist,
                   flushedEntries, ackedVote, ackedPurge, crashes, atCrash, nonLogVars>>

writer_vote ==
    /\ wpc = "idle"
    /\ wq # <<>>
    /\ Head(wq).t = "Vote"
    /\ wq' = Tail(wq)
    /\ \/ /\ db' = put_cf_vote(db, Head(wq).value)
          /\ recoverable' = Written(recoverable, db')
          /\ ack' = "ok"
       \/ /\ ack' = "err"
          /\ UNCHANGED <<db, recoverable>>
    /\ hist' = <<>>
    /\ UNCHANGED <<wpc, wcur, wres, wtail, ech, echRx, cpc, cop, ctodo,
                   appWriteFailed, appRet, flushedEntries, ackedVote, ackedPurge,
                   crashes, atCrash, nonLogVars>>

\* rx.await.unwrap()?; Ok(())
save_vote_await ==
    /\ cpc = "vote_wait"
    /\ ack # "none"
    /\ ackedVote' = IF ack = "ok" THEN cop.arg ELSE ackedVote
    /\ cpc' = "idle"
    /\ cop' = NoCall
    /\ ack' = "none"
    /\ UNCHANGED <<db, recoverable, wq, wpc, wcur, wres, wtail, ech, echRx, ctodo,
                   hist, appWriteFailed, appRet, flushedEntries, ackedPurge,
                   crashes, atCrash, nonLogVars>>

(***************************************************************************)
(* purge, truncate and ActionWrite::Remove.                                 *)
(***************************************************************************)
purge(k) ==
    /\ cpc = "idle"
    /\ Len(wq) < WriterChanCap
    /\ k \in db.logs
    /\ k > db.last_purged
    /\ wq' = Append(wq, [NoAction EXCEPT !.t = "Remove", !.from = 0,
                                         !.until = k + 1, !.last_log = k])
    /\ cop' = [t |-> "purge", arg |-> k, entries |-> <<>>]
    /\ ack' = "none"
    /\ cpc' = "rm_wait"
    /\ flushedEntries' = {i \in flushedEntries : i > k}
    /\ appRet' = "none"
    /\ appWriteFailed' = FALSE
    /\ UNCHANGED <<db, recoverable, wpc, wcur, wres, wtail, ech, echRx, ctodo, hist,
                   ackedVote, ackedPurge, crashes, atCrash, nonLogVars>>

truncate(from) ==
    /\ cpc = "idle"
    /\ Len(wq) < WriterChanCap
    /\ from \in db.logs
    /\ from > db.last_purged
    /\ wq' = Append(wq, [NoAction EXCEPT !.t = "Remove", !.from = from,
                                         !.until = U64Max, !.last_log = 0])
    /\ cop' = [t |-> "truncate", arg |-> from, entries |-> <<>>]
    /\ ack' = "none"
    /\ cpc' = "rm_wait"
    /\ flushedEntries' = {i \in flushedEntries : i < from}
    /\ appRet' = "none"
    /\ appWriteFailed' = FALSE
    /\ UNCHANGED <<db, recoverable, wpc, wcur, wres, wtail, ech, echRx, ctodo, hist,
                   ackedVote, ackedPurge, crashes, atCrash, nonLogVars>>

\* delete_range_cf(logs, from, until): the first write of the Remove arm
writer_remove_delete ==
    /\ wpc = "idle"
    /\ wq # <<>>
    /\ Head(wq).t = "Remove"
    /\ wq' = Tail(wq)
    /\ wcur' = Head(wq)
    /\ \/ /\ db' = [delete_range_cf(db, Head(wq).from, Head(wq).until)
                      EXCEPT !.purge_deleted =
                          IF Head(wq).last_log # 0
                          THEN Max({@, Head(wq).until - 1}) ELSE @]
          /\ recoverable' = Written(recoverable, db')
          /\ wres' = "ok"
       \/ /\ wres' = "err"
          /\ UNCHANGED <<db, recoverable>>
    /\ wpc' = "remove2"
    /\ hist' = <<>>
    /\ UNCHANGED <<wtail, ech, echRx, ack, cpc, cop, ctodo, appWriteFailed,
                   appRet, flushedEntries, ackedVote, ackedPurge, crashes, atCrash, nonLogVars>>

\* if res.is_ok() and last_log is Some: put_cf(meta, KEY_LAST_PURGED); then
\* db.flush_wal(true); ack.send(res)
writer_remove_finish ==
    /\ wpc = "remove2"
    /\ \/ /\ wres = "ok"
          /\ wcur.last_log # 0
          /\ \/ /\ db' = put_cf_last_purged(db, wcur.last_log)
                /\ ack' = "ok"
             \/ /\ db' = db
                /\ ack' = "err"
       \/ /\ ~(wres = "ok" /\ wcur.last_log # 0)
          /\ db' = db
          /\ ack' = wres
    /\ recoverable' = flush_wal(recoverable, db')
    /\ wres' = "ok"
    /\ wpc' = "idle"
    /\ wcur' = NoAction
    /\ UNCHANGED <<wq, wtail, ech, echRx, cpc, cop, ctodo, hist, appWriteFailed,
                   appRet, flushedEntries, ackedVote, ackedPurge, crashes, atCrash, nonLogVars>>

\* rx.await.unwrap().map_err(..)
remove_await ==
    /\ cpc = "rm_wait"
    /\ ack # "none"
    /\ ackedPurge' = IF ack = "ok" /\ cop.t = "purge"
                     THEN Max({ackedPurge, cop.arg}) ELSE ackedPurge
    /\ cpc' = "idle"
    /\ cop' = NoCall
    /\ ack' = "none"
    /\ UNCHANGED <<db, recoverable, wq, wpc, wcur, wres, wtail, ech, echRx, ctodo,
                   hist, appWriteFailed, appRet, flushedEntries, ackedVote,
                   crashes, atCrash, nonLogVars>>

(***************************************************************************)
(* ActionWrite::Sync.                                                       *)
(***************************************************************************)
submit_sync ==
    /\ Len(wq) < WriterChanCap
    /\ \A i \in 1..Len(wq) : wq[i].t # "Sync"
    /\ recoverable # {db}
    /\ wq' = Append(wq, [NoAction EXCEPT !.t = "Sync"])
    /\ UNCHANGED <<db, recoverable, wpc, wcur, wres, wtail, ech, echRx, ack, cpc,
                   cop, ctodo, hist, appWriteFailed, appRet, flushedEntries,
                   ackedVote, ackedPurge, crashes, atCrash, nonLogVars>>

writer_sync ==
    /\ wpc = "idle"
    /\ wq # <<>>
    /\ Head(wq).t = "Sync"
    /\ wq' = Tail(wq)
    /\ recoverable' = flush_wal(recoverable, db)
    /\ hist' = <<>>
    /\ UNCHANGED <<db, wpc, wcur, wres, wtail, ech, echRx, ack, cpc, cop, ctodo,
                   appWriteFailed, appRet, flushedEntries, ackedVote, ackedPurge,
                   crashes, atCrash, nonLogVars>>

(***************************************************************************)
(* The process crashes and is started again: the store is one of the states *)
(* the WAL can be recovered to, the workers and channels are new.           *)
(***************************************************************************)
crash ==
    /\ crashes < MaxCrash
    /\ crashes' = crashes + 1
    /\ db' \in recoverable
    /\ recoverable' = {db'}
    /\ wq' = <<>>
    /\ wpc' = "idle"
    /\ wcur' = NoAction
    /\ wres' = "ok"
    /\ wtail' = <<>>
    /\ ech' = <<>>
    /\ echRx' = FALSE
    /\ ack' = "none"
    /\ cpc' = "idle"
    /\ cop' = NoCall
    /\ ctodo' = <<>>
    /\ hist' = <<>>
    /\ appWriteFailed' = FALSE
    /\ appRet' = "none"
    /\ atCrash' = [purge |-> ackedPurge, vote |-> ackedVote]
    /\ UNCHANGED <<flushedEntries, ackedVote, ackedPurge, nonLogVars>>

NextLog ==
    \/ \E n \in 1..MaxBatch : append(n)
    \/ append_send
    \/ append_await
    \/ writer_append_start
    \/ writer_append_recv
    \/ writer_append_tail
    \/ \E v \in 1..MaxVote : save_vote(v)
    \/ writer_vote
    \/ save_vote_await
    \/ \E k \in 1..MaxIndex : purge(k)
    \/ \E from \in 1..MaxIndex : truncate(from)
    \/ writer_remove_delete
    \/ writer_remove_finish
    \/ remove_await
    \/ submit_sync
    \/ writer_sync
    \/ crash



(***************************************************************************)
(* The stream server: handle_socket_concurrent for the connections of one   *)
(* client id, and that client's entry of state.client_buffers.              *)
(***************************************************************************)
Conns == 1..MaxConn

Reqs == 1..MaxReq

Count(q, x) == Cardinality({i \in 1..Len(q) : q[i] = x})

Sum(f) == LET RECURSIVE S(_)
              S(D) == IF D = {} THEN 0
                      ELSE LET x == CHOOSE y \in D : TRUE IN f[x] + S(D \ {x})
          IN  S(DOMAIN f)

InitStream ==
    /\ buffer = <<>>
    /\ cst = [k \in Conns |-> "new"]
    /\ creader = [k \in Conns |-> "none"]
    /\ cwriter = [k \in Conns |-> "none"]
    /\ rxw = [k \in Conns |-> <<>>]
    /\ inflight = [k \in Conns |-> [r \in Reqs |-> 0]]
    /\ dispatched = [r \in Reqs |-> 0]
    /\ applied = [r \in Reqs |-> 0]
    /\ produced = [r \in Reqs |-> 0]
    /\ written = [r \in Reqs |-> 0]
    /\ redelivered = {}
    /\ resend = [k \in Conns |-> {}]
    /\ bufseq = <<>>
    /\ nsaved = 0
    /\ drained = [k \in Conns |-> <<>>]
    /\ hs = [k \in Conns |-> "none"]
    /\ close_frame = [k \in Conns |-> "none"]
    /\ read_break = [k \in Conns |-> "none"]
    /\ write_err = [k \in Conns |-> FALSE]

\* the request ids the client has sent and seen no response to when it connects again
Unanswered == {r \in Reqs : dispatched[r] > 0 /\ written[r] = 0}

\* a connection slot is free before its first connection and after handle_socket_concurrent
\* has returned for the connection it held
Free(k) == cst[k] \in {"new", "closed"}

\* a handshake that failed would go on to the buffer all the same
AfterHandshake_unchecked(ok) == "drain"

\* where handle_socket_concurrent goes after the handshake: on to the buffer, or its
\* `return Ok(())`
AfterHandshake(ok) == IF ok THEN "drain" ELSE "closed"

\* the writer task would leave without a close frame
CloseOnBreak_omitted == "none"

\* the reason of the close frame the writer task writes when it receives
\* WsWriteMsg::Break
CloseOnBreak == "Invalid Request"

\* HandshakeSecret::server: Ok(client_id) and the buffer lookup, or Err and a close frame.
\* The client has one stream at a time: it connects again when the stream it had
\* is gone (refused, failed while the buffer was emptied, or its reader has ended).
handshake(k, ok) ==
    /\ Free(k)
    /\ \A j \in Conns : j < k => ~Free(j)
    /\ \A j \in Conns : j # k => (Free(j) \/ creader[j] = "done")
    /\ cst' = [cst EXCEPT ![k] = AfterHandshake(ok)]
    /\ hs' = [hs EXCEPT ![k] = IF ok THEN "ok" ELSE "err"]
    /\ close_frame' = [close_frame EXCEPT
                          ![k] = IF ok THEN "none" ELSE "Invalid Handshake"]
    /\ read_break' = [read_break EXCEPT ![k] = "none"]
    /\ write_err' = [write_err EXCEPT ![k] = FALSE]
    /\ creader' = [creader EXCEPT ![k] = "none"]
    /\ cwriter' = [cwriter EXCEPT ![k] = "none"]
    /\ resend' = [resend EXCEPT ![k] = IF ok THEN Unanswered ELSE {}]
    /\ drained' = [drained EXCEPT ![k] = <<>>]
    /\ UNCHANGED <<buffer, rxw, inflight, dispatched, applied, produced, written,
                   redelivered, bufseq, nsaved, nonStreamVars>>

\* buf_tx.send_async(payload): the payload goes to the end of the buffer
PutBack(buf, payload) == Append(buf, payload)

\* one round of `while let Ok(payload) = buf_rx.try_recv()`, the buffer holding a payload
empty_buffer(k, write_ok) ==
    /\ cst[k] = "drain"
    /\ buffer # <<>>
    /\ IF write_ok
       THEN /\ buffer' = Tail(buffer)
            /\ bufseq' = Tail(bufseq)
            /\ drained' = [drained EXCEPT ![k] = Append(@, Head(bufseq))]
            /\ written' = [written EXCEPT ![Head(buffer)] = @ + 1]
            /\ redelivered' = redelivered \cup {Head(buffer)}
            /\ UNCHANGED cst
       ELSE /\ buffer' = PutBack(Tail(buffer), Head(buffer))
            /\ bufseq' = PutBack(Tail(bufseq), Head(bufseq))
            /\ cst' = [cst EXCEPT ![k] = "closed"]
            /\ UNCHANGED <<written, redelivered, drained>>
    /\ UNCHANGED <<creader, cwriter, rxw, inflight, dispatched, applied, produced,
                   resend, nsaved, socketVars, nonStreamVars>>

\* try_recv finds the buffer empty: the writer task is spawned, the read loop starts
start_tasks(k) ==
    /\ cst[k] = "drain"
    /\ buffer = <<>>
    /\ cst' = [cst EXCEPT ![k] = "open"]
    /\ creader' = [creader EXCEPT ![k] = "run"]
    /\ cwriter' = [cwriter EXCEPT ![k] = "w1"]
    /\ UNCHANGED <<buffer, rxw, inflight, dispatched, applied, produced, written,
                   redelivered, resend, bufseq, nsaved, drained, socketVars,
                   nonStreamVars>>

\* the client sends request id r on connection k: the next new id, or an id it had
\* no response to when it opened this connection
ClientSends(k, r) ==
    /\ Sum(dispatched) < MaxFrames
    /\ \/ /\ dispatched[r] = 0
          /\ \A q \in Reqs : q < r => dispatched[q] > 0
       \/ r \in resend[k]

\* the read loop would await the request instead of spawning a task for it
read_request_inline(k, r) ==
    /\ cst[k] = "open"
    /\ creader[k] = "run"
    /\ ClientSends(k, r)
    /\ \A q \in Reqs : inflight[k][q] = 0
    /\ inflight' = [inflight EXCEPT ![k][r] = @ + 1]
    /\ dispatched' = [dispatched EXCEPT ![r] = @ + 1]
    /\ resend' = [resend EXCEPT ![k] = @ \ {r}]
    /\ UNCHANGED <<buffer, cst, creader, cwriter, rxw, applied, produced, written,
                   redelivered, bufseq, nsaved, drained, socketVars,
                   nonStreamVars>>

\* read_frame returns a Binary frame that decodes: the request is dispatched on its
\* own task
read_request(k, r) ==
    /\ cst[k] = "open"
    /\ creader[k] = "run"
    /\ ClientSends(k, r)
    /\ inflight' = [inflight EXCEPT ![k][r] = @ + 1]
    /\ dispatched' = [dispatched EXCEPT ![r] = @ + 1]
    /\ resend' = [resend EXCEPT ![k] = @ \ {r}]
    /\ UNCHANGED <<buffer, cst, creader, cwriter, rxw, applied, produced, written,
                   redelivered, bufseq, nsaved, drained, socketVars, nonStreamVars>>

\* the read loop ends: a Close frame or a read error (one Break, sent after the loop),
\* or a frame that is no ApiStreamRequest (a Break before the loop's break, too)
read_end(k, bad_frame) ==
    /\ cst[k] = "open"
    /\ creader[k] = "run"
    /\ creader' = [creader EXCEPT ![k] = "done"]
    /\ rxw' = [rxw EXCEPT ![k] = IF bad_frame THEN @ \o <<0, 0>> ELSE Append(@, 0)]
    /\ read_break' = [read_break EXCEPT ![k] = IF bad_frame THEN "bad" ELSE "close"]
    /\ UNCHANGED <<buffer, cst, cwriter, inflight, dispatched, applied, produced,
                   written, redelivered, resend, bufseq, nsaved, drained, hs,
                   close_frame, write_err, nonStreamVars>>

\* raft.client_write(..) is called for every request read, whatever its request_id
Dispatch(n, ok) == IF ok THEN n + 1 ELSE n

\* the spawned task: client_write, then tx_write.send_async(WsWriteMsg::Payload(res))
handle_request(k, r, ok) ==
    /\ inflight[k][r] > 0
    /\ cwriter[k] \in {"w1", "w2"}
    /\ inflight' = [inflight EXCEPT ![k][r] = @ - 1]
    /\ applied' = [applied EXCEPT ![r] = Dispatch(@, ok)]
    /\ produced' = [produced EXCEPT ![r] = @ + 1]
    /\ rxw' = [rxw EXCEPT ![k] = Append(@, r)]
    /\ UNCHANGED <<buffer, cst, creader, cwriter, dispatched, written, redelivered,
                   resend, bufseq, nsaved, drained, socketVars, nonStreamVars>>

\* a mutant of SaveResponse: the response whose write failed is not kept
SaveResponse_lost(buf, r) == buf

\* buf_tx.send_async(bincode::serialize(&resp)): the response goes into the buffer
SaveResponse(buf, r) == Append(buf, r)

\* the writer task's first loop, one message
write_response(k, write_ok) ==
    /\ cwriter[k] = "w1"
    /\ rxw[k] # <<>>
    /\ rxw' = [rxw EXCEPT ![k] = Tail(@)]
    /\ LET m == Head(rxw[k]) IN
       IF m = 0
       THEN /\ cwriter' = [cwriter EXCEPT ![k] = "w2"]
            /\ close_frame' = [close_frame EXCEPT ![k] = CloseOnBreak]
            /\ UNCHANGED <<buffer, written, bufseq, nsaved, write_err>>
       ELSE IF write_ok
            THEN /\ written' = [written EXCEPT ![m] = @ + 1]
                 /\ UNCHANGED <<buffer, cwriter, bufseq, nsaved, close_frame, write_err>>
            ELSE /\ buffer' = SaveResponse(buffer, m)
                 /\ bufseq' = SaveResponse(bufseq, nsaved + 1)
                 /\ nsaved' = nsaved + 1
                 /\ cwriter' = [cwriter EXCEPT ![k] = "w2"]
                 /\ write_err' = [write_err EXCEPT ![k] = TRUE]
                 /\ UNCHANGED <<written, close_frame>>
    /\ UNCHANGED <<cst, creader, inflight, dispatched, applied, produced,
                   redelivered, resend, drained, hs, read_break, nonStreamVars>>

\* the writer task's second loop, one message: payloads go into the buffer
save_response(k) ==
    /\ cwriter[k] = "w2"
    /\ rxw[k] # <<>>
    /\ rxw' = [rxw EXCEPT ![k] = Tail(@)]
    /\ IF Head(rxw[k]) = 0
       THEN UNCHANGED <<buffer, bufseq, nsaved>>
       ELSE /\ buffer' = SaveResponse(buffer, Head(rxw[k]))
            /\ bufseq' = SaveResponse(bufseq, nsaved + 1)
            /\ nsaved' = nsaved + 1
    /\ UNCHANGED <<cst, creader, cwriter, inflight, dispatched, applied, produced,
                   written, redelivered, resend, drained, socketVars, nonStreamVars>>

\* the writer task would end with the read loop, whatever the handlers still hold
writer_exit_early(k) ==
    /\ cwriter[k] \in {"w1", "w2"}
    /\ rxw[k] = <<>>
    /\ creader[k] = "done"
    /\ cwriter' = [cwriter EXCEPT ![k] = "done"]
    /\ cst' = [cst EXCEPT ![k] = "closed"]
    /\ close_frame' = [close_frame EXCEPT ![k] = "none"]
    /\ read_break' = [read_break EXCEPT ![k] = "none"]
    /\ write_err' = [write_err EXCEPT ![k] = FALSE]
    /\ UNCHANGED <<buffer, creader, rxw, inflight, dispatched, applied, produced,
                   written, redelivered, resend, bufseq, nsaved, drained, hs,
                   nonStreamVars>>

\* every sender of tx_write is dropped and the channel is empty: the writer task
\* ends and handle_write.await returns
writer_exit(k) ==
    /\ cwriter[k] \in {"w1", "w2"}
    /\ rxw[k] = <<>>
    /\ creader[k] = "done"
    /\ \A r \in Reqs : inflight[k][r] = 0
    /\ cwriter' = [cwriter EXCEPT ![k] = "done"]
    /\ cst' = [cst EXCEPT ![k] = "closed"]
    /\ close_frame' = [close_frame EXCEPT ![k] = "none"]
    /\ read_break' = [read_break EXCEPT ![k] = "none"]
    /\ write_err' = [write_err EXCEPT ![k] = FALSE]
    /\ UNCHANGED <<buffer, creader, rxw, inflight, dispatched, applied, produced,
                   written, redelivered, resend, bufseq, nsaved, drained, hs,
                   nonStreamVars>>

NextStream ==
    \/ \E k \in Conns, ok \in BOOLEAN : handshake(k, ok)
    \/ \E k \in Conns, ok \in BOOLEAN : empty_buffer(k, ok)
    \/ \E k \in Conns : start_tasks(k)
    \/ \E k \in Conns, r \in Reqs : read_request(k, r)
    \/ \E k \in Conns, bad \in BOOLEAN : read_end(k, bad)
    \/ \E k \in Conns, r \in Reqs, ok \in BOOLEAN : handle_request(k, r, ok)
    \/ \E k \in Conns, ok \in BOOLEAN : write_response(k, ok)
    \/ \E k \in Conns : save_response(k)
    \/ \E k \in Conns : writer_exit(k)

(***************************************************************************)
(* The client: DbClient::execute called by several tasks on one handle.     *)
(* A result of execute_req is Ok, a forward-to-leader error (id = 0: no     *)
(* leader id, node = FALSE: no node) or another error.                      *)
(***************************************************************************)
Callers == 1..MaxCallers

\* `if i >= 2`
RetryLimit == 2

Nodes == 1..MaxNode

NoResult == [kind |-> "none"]

NoAddr == <<>>

Ok == [kind |-> "ok"]

OtherError == [kind |-> "error"]

ForwardToLeader(id, node) == [kind |-> "forward", id |-> id, node |-> node]

AllResults ==
    {Ok, OtherError} \cup {ForwardToLeader(id, node) : id \in 0..MaxNode, node \in BOOLEAN}

\* what a request sent while the leader pointer is l can come back with: a node
\* that is not the leader names another node, or none, as the leader
Results(l) == {res \in AllResults : res.kind = "forward" => res.id # l}

InitClient ==
    /\ leader = 0
    /\ tx_client = <<>>
    /\ callpc = [p \in Callers |-> "idle"]
    /\ calls = [p \in Callers |-> 0]
    /\ attempts = [p \in Callers |-> 0]
    /\ first_err = [p \in Callers |-> NoResult]
    /\ has_changed = [p \in Callers |-> FALSE]
    /\ ret = [p \in Callers |-> NoResult]
    /\ built = FALSE
    /\ state_id = 0
    /\ request_id = 0
    /\ stream_reqs = <<>>
    /\ local_writes = 0
    /\ changes = 0
    /\ leader_addr = NoAddr
    /\ swr_i = [p \in Callers |-> 0]

\* AppState::addr_api of node n, and Node::addr_api of node n in a
\* forward-to-leader error
addr_api(n) == <<"api", n>>

\* the pointer would keep the address it had
StoredAddr_kept(old, id) == old

\* `*lock = (leader_id, api_addr.clone())`: the address written with leader_id is
\* node.addr_api of the error
StoredAddr(old, id) == addr_api(id)

\* DbClient::new_local: the client of node id, which starts as its own leader
new_local(id) ==
    /\ ~built
    /\ built' = TRUE
    /\ state_id' = id
    /\ leader' = id
    /\ leader_addr' = addr_api(id)
    /\ UNCHANGED <<tx_client, callpc, calls, attempts, first_err, has_changed, ret,
                   request_id, stream_reqs, local_writes, changes, swr_i, nonClientVars>>

\* DbClient::new: a remote client that is given the leader
new(leader_id) ==
    /\ ~built
    /\ built' = TRUE
    /\ state_id' = 0
    /\ leader' = leader_id
    /\ leader_addr' = addr_api(leader_id)
    /\ UNCHANGED <<tx_client, callpc, calls, attempts, first_err, has_changed, ret,
                   request_id, stream_reqs, local_writes, changes, swr_i, nonClientVars>>

\* a task calls execute
execute(p) ==
    /\ built
    /\ callpc[p] \in {"idle", "done"}
    /\ Sum(calls) < MaxCalls
    /\ calls' = [calls EXCEPT ![p] = @ + 1]
    /\ callpc' = [callpc EXCEPT ![p] = "req1"]
    /\ attempts' = [attempts EXCEPT ![p] = 0]
    /\ first_err' = [first_err EXCEPT ![p] = NoResult]
    /\ has_changed' = [has_changed EXCEPT ![p] = FALSE]
    /\ ret' = [ret EXCEPT ![p] = NoResult]
    /\ UNCHANGED <<leader, tx_client, built, state_id, request_id, stream_reqs,
                   local_writes, changes, leader_addr, swr_i, nonClientVars>>

\* a mutant of is_this_local_leader: every client with local state writes locally
is_this_local_leader_any(st, l) == st # 0

\* is_this_local_leader: `state` is Some and state.id is the node id in the pointer
is_this_local_leader(st, l) == st # 0 /\ st = l

\* the counter would stay as it is
fetch_add_lost(v) == v

\* the value request_id.fetch_add(1, Ordering::Relaxed) leaves in the counter; it
\* returns the value it found
fetch_add(v) == v + 1

\* execute_req returns res, from the local raft.client_write or, with the next
\* request id, over the stream: the first one ends execute with Ok or hands its
\* Err to was_leader_update_error, the second one's result is the result of execute
execute_req(p, res) ==
    /\ callpc[p] \in {"req1", "req2"}
    /\ res \in Results(leader)
    /\ attempts' = [attempts EXCEPT ![p] = @ + 1]
    /\ IF is_this_local_leader(state_id, leader)
       THEN /\ local_writes' = local_writes + 1
            /\ UNCHANGED <<request_id, stream_reqs>>
       ELSE /\ stream_reqs' = Append(stream_reqs, request_id)
            /\ request_id' = fetch_add(request_id)
            /\ UNCHANGED local_writes
    /\ IF callpc[p] = "req1" /\ res.kind # "ok"
       THEN /\ first_err' = [first_err EXCEPT ![p] = res]
            /\ callpc' = [callpc EXCEPT ![p] = "update"]
            /\ UNCHANGED ret
       ELSE /\ ret' = [ret EXCEPT ![p] = res]
            /\ callpc' = [callpc EXCEPT ![p] = "done"]
            /\ UNCHANGED first_err
    /\ UNCHANGED <<leader, tx_client, calls, has_changed, built, state_id, changes,
                   leader_addr, swr_i, nonClientVars>>

\* a mutant of PointerChanged: the pointer counts as changed whatever it held
PointerChanged_always(l, id) == TRUE

\* `if lock.0 != leader_id`: the pointer is written, and has_changed set, only then
PointerChanged(l, id) == l # id

\* a mutant of AfterUpdate: execute tries again whatever was_leader_update_error returns
AfterUpdate_retry(changed) == IF changed THEN "notify" ELSE "req2"

\* where the caller goes when the write lock is released: with has_changed to the
\* LeaderChange message and the second attempt, without it to `Err(err)`
AfterUpdate(changed) == IF changed THEN "notify" ELSE "done"

\* was_leader_update_error up to the release of the write lock; without a change
\* it returns false and execute returns the first Err
was_leader_update_error(p) ==
    /\ callpc[p] = "update"
    /\ LET err == first_err[p]
           changed == /\ err.kind = "forward"
                      /\ err.id # 0
                      /\ err.node
                      /\ PointerChanged(leader, err.id)
       IN  /\ has_changed' = [has_changed EXCEPT ![p] = changed]
           /\ leader' = IF changed THEN err.id ELSE leader
           /\ leader_addr' = IF changed THEN StoredAddr(leader_addr, err.id)
                              ELSE leader_addr
           /\ ret' = IF changed THEN ret ELSE [ret EXCEPT ![p] = err]
           /\ callpc' = [callpc EXCEPT ![p] = AfterUpdate(changed)]
    /\ changes' = IF leader' # leader THEN changes + 1 ELSE changes
    /\ UNCHANGED <<tx_client, calls, attempts, first_err, built, state_id, request_id,
                   stream_reqs, local_writes, swr_i, nonClientVars>>

\* `if has_changed`: LeaderChange goes to the stream manager, true is returned and
\* execute tries once again
send_leader_change(p) ==
    /\ callpc[p] = "notify"
    /\ tx_client' = Append(tx_client, first_err[p].id)
    /\ callpc' = [callpc EXCEPT ![p] = "req2"]
    /\ UNCHANGED <<leader, calls, attempts, first_err, has_changed, ret, built,
                   state_id, request_id, stream_reqs, local_writes, changes,
                   leader_addr, swr_i, nonClientVars>>

\* a task calls add_learner, change_membership or, on a remote client, metrics:
\* send_with_retry starts with i = 0
send_with_retry(p) ==
    /\ built
    /\ callpc[p] \in {"idle", "done"}
    /\ Sum(calls) < MaxCalls
    /\ calls' = [calls EXCEPT ![p] = @ + 1]
    /\ callpc' = [callpc EXCEPT ![p] = "swr_send"]
    /\ attempts' = [attempts EXCEPT ![p] = 0]
    /\ first_err' = [first_err EXCEPT ![p] = NoResult]
    /\ has_changed' = [has_changed EXCEPT ![p] = FALSE]
    /\ ret' = [ret EXCEPT ![p] = NoResult]
    /\ swr_i' = [swr_i EXCEPT ![p] = 0]
    /\ UNCHANGED <<leader, tx_client, built, state_id, request_id, stream_reqs,
                   local_writes, changes, leader_addr, nonClientVars>>

\* one round of the loop up to the response: the request goes to the address in
\* the pointer; a success status returns Ok(resp), another one yields the Error
\* of the body
swr_response(p, res) ==
    /\ callpc[p] = "swr_send"
    /\ res \in Results(leader)
    /\ attempts' = [attempts EXCEPT ![p] = @ + 1]
    /\ IF res.kind = "ok"
       THEN /\ ret' = [ret EXCEPT ![p] = res]
            /\ callpc' = [callpc EXCEPT ![p] = "done"]
            /\ UNCHANGED first_err
       ELSE /\ first_err' = [first_err EXCEPT ![p] = res]
            /\ callpc' = [callpc EXCEPT ![p] = "swr_error"]
            /\ UNCHANGED ret
    /\ UNCHANGED <<leader, tx_client, calls, has_changed, built, state_id, request_id,
                   stream_reqs, local_writes, changes, leader_addr, swr_i,
                   nonClientVars>>

\* `.send().await?`: the request cannot be sent and send_with_retry returns the Err
swr_send_failed(p) ==
    /\ callpc[p] = "swr_send"
    /\ attempts' = [attempts EXCEPT ![p] = @ + 1]
    /\ ret' = [ret EXCEPT ![p] = OtherError]
    /\ callpc' = [callpc EXCEPT ![p] = "done"]
    /\ UNCHANGED <<leader, tx_client, calls, first_err, has_changed, built, state_id,
                   request_id, stream_reqs, local_writes, changes, leader_addr, swr_i,
                   nonClientVars>>

\* the else branch of the loop: was_leader_update_error(&err), whose result is
\* dropped, then `if i >= 2 { return Err(err) }`, `i += 1` and `continue`
swr_error(p) ==
    /\ callpc[p] = "swr_error"
    /\ LET err == first_err[p]
           changed == /\ err.kind = "forward"
                      /\ err.id # 0
                      /\ err.node
                      /\ PointerChanged(leader, err.id)
       IN  /\ has_changed' = [has_changed EXCEPT ![p] = changed]
           /\ leader' = IF changed THEN err.id ELSE leader
           /\ leader_addr' = IF changed THEN StoredAddr(leader_addr, err.id)
                              ELSE leader_addr
           /\ tx_client' = IF changed THEN Append(tx_client, err.id) ELSE tx_client
           /\ IF swr_i[p] >= RetryLimit
              THEN /\ ret' = [ret EXCEPT ![p] = err]
                   /\ callpc' = [callpc EXCEPT ![p] = "done"]
                   /\ UNCHANGED swr_i
              ELSE /\ swr_i' = [swr_i EXCEPT ![p] = @ + 1]
                   /\ callpc' = [callpc EXCEPT ![p] = "swr_send"]
                   /\ UNCHANGED ret
    /\ changes' = IF leader' # leader THEN changes + 1 ELSE changes
    /\ UNCHANGED <<calls, attempts, first_err, built, state_id, request_id,
                   stream_reqs, local_writes, nonClientVars>>

NextAdmin ==
    \/ \E id \in Nodes : new_local(id)
    \/ \E leader_id \in Nodes : new(leader_id)
    \/ \E p \in Callers : send_with_retry(p)
    \/ \E p \in Callers, res \in AllResults : swr_response(p, res)
    \/ \E p \in Callers : swr_send_failed(p)
    \/ \E p \in Callers : swr_error(p)

NextClient ==
    \/ \E id \in Nodes : new_local(id)
    \/ \E leader_id \in Nodes : new(leader_id)
    \/ \E p \in Callers : execute(p)
    \/ \E p \in Callers, res \in AllResults : execute_req(p, res)
    \/ \E p \in Callers : was_leader_update_error(p)
    \/ \E p \in Callers : send_leader_change(p)

(***************************************************************************)
(* The stream server's request task, seen by payload variant: which         *)
(* ApiStreamResponsePayload variant answers which ApiStreamRequestPayload.   *)
(***************************************************************************)
Pending == 1..MaxPending

\* the variants of ApiStreamRequestPayload that go to raft.client_write
WritePayloads ==
    {"Execute", "ExecuteReturning", "Transaction", "Batch", "Migrate", "Backup", "KV"}

InitPayload == pending = [s \in Pending |-> [st |-> "idle"]]

\* the variant of ApiStreamResponse::result the request task builds, by request
\* variant and by the outcome of client_write
ResponseVariant(payload, ok) ==
    CASE payload = "Execute" -> "Execute"
      [] payload = "ExecuteReturning" -> "ExecuteReturning"
      [] payload = "Transaction" -> IF ok THEN "Transaction" ELSE "Execute"
      [] payload = "Batch" -> IF ok THEN "Batch" ELSE "Execute"
      [] payload = "Migrate" -> IF ok THEN "Migrate" ELSE "Execute"
      [] payload = "Backup" -> "Backup"
      [] payload = "KV" -> IF ok THEN "KV" ELSE "Backup"

\* a request frame with request id s and the given payload variant is read
request_read(s, payload) ==
    /\ pending[s].st = "idle"
    /\ pending' = [pending EXCEPT ![s] = [st |-> "read", payload |-> payload]]
    /\ UNCHANGED nonPayloadVars

\* client_write returns Ok or Err and the response goes to the writer task
response_built(s, ok) ==
    /\ pending[s].st = "read"
    /\ pending' = [pending EXCEPT ![s] =
                       [st |-> "answered", payload |-> pending[s].payload,
                        request_id |-> s, ok |-> ok,
                        result |-> ResponseVariant(pending[s].payload, ok)]]
    /\ UNCHANGED nonPayloadVars

\* the client takes the response; the request id is free again
response_taken(s) ==
    /\ pending[s].st = "answered"
    /\ pending' = [pending EXCEPT ![s] = [st |-> "idle"]]
    /\ UNCHANGED nonPayloadVars

NextPayload ==
    \/ \E s \in Pending, payload \in WritePayloads : request_read(s, payload)
    \/ \E s \in Pending, ok \in BOOLEAN : response_built(s, ok)
    \/ \E s \in Pending : response_taken(s)

(***************************************************************************)
(* The reader worker of the log store and the task that reads through it.   *)
(* Every LogStoreRocksdb handle has a reader worker of its own.             *)
(***************************************************************************)
NoRead == [t |-> "none", from |-> 0, until |-> 0]

NoReturn == [ok |-> FALSE, t |-> "none", entries |-> <<>>, value |-> 0]

\* the elements of a set of indexes in ascending order: the order of the keys
RECURSIVE Ascending(_)
Ascending(S) ==
    IF S = {} THEN <<>>
    ELSE LET m == CHOOSE x \in S : \A y \in S : x <= y
         IN  <<m>> \o Ascending(S \ {m})

InitReader ==
    /\ rq = NoRead
    /\ rpc = "idle"
    /\ rcur = NoRead
    /\ riter = <<>>
    /\ rsnap = EmptyDb
    /\ rch = <<>>
    /\ rchRx = FALSE
    /\ rmarkers = 0
    /\ rcpc = "idle"
    /\ rres = <<>>
    /\ rret = NoReturn

\* the writer worker has put the next entry into "logs"
entry_stored ==
    /\ NextIndex(db) <= MaxIndex
    /\ db' = put_cf_logs(db, NextIndex(db))
    /\ recoverable' = Written(recoverable, db')
    /\ UNCHANGED <<readerVars, nonReaderVars>>

\* the writer worker has handled the Remove of a purge of the entries up to k
entries_purged(k) ==
    /\ k \in db.logs
    /\ db' = put_cf_last_purged(delete_range_cf(db, 0, k + 1), k)
    /\ recoverable' = flush_wal(recoverable, db')
    /\ UNCHANGED <<readerVars, nonReaderVars>>

\* the writer worker has handled a Vote
vote_stored(v) ==
    /\ v > db.vote
    /\ db' = put_cf_vote(db, v)
    /\ recoverable' = Written(recoverable, db')
    /\ UNCHANGED <<readerVars, nonReaderVars>>

\* the reading task may send: the action it sent before has been handled
CanRead ==
    /\ rcpc \in {"idle", "returned", "dropped"}
    /\ rpc = "idle"
    /\ rq = NoRead

\* try_get_log_entries(from..until): ActionRead::Logs is sent
try_get_log_entries(from, until) ==
    /\ CanRead
    /\ from <= until
    /\ rq' = [t |-> "Logs", from |-> from, until |-> until]
    /\ rcpc' = "wait_logs"
    /\ rres' = <<>>
    /\ rret' = NoReturn
    /\ rch' = <<>>
    /\ rchRx' = TRUE
    /\ rmarkers' = 0
    /\ rsnap' = EmptyDb
    /\ UNCHANGED <<rpc, rcur, riter, logVars, streamVars, clientVars, payloadVars,
                   keyVars, restVars>>

\* get_log_state() and read_vote(): ActionRead::LogState or ActionRead::Vote is sent
read_meta(t) ==
    /\ CanRead
    /\ rq' = [t |-> t, from |-> 0, until |-> 0]
    /\ rcpc' = "wait_meta"
    /\ rres' = <<>>
    /\ rret' = NoReturn
    /\ rch' = <<>>
    /\ rchRx' = TRUE
    /\ rmarkers' = 0
    /\ rsnap' = EmptyDb
    /\ UNCHANGED <<rpc, rcur, riter, logVars, streamVars, clientVars, payloadVars,
                   keyVars, restVars>>

\* rx.recv() of the reader worker; for Logs the iterator is opened at `from`
reader_recv ==
    /\ rpc = "idle"
    /\ rq # NoRead
    /\ rcur' = rq
    /\ rq' = NoRead
    /\ IF rq.t = "Logs"
       THEN /\ rpc' = "logs"
            /\ rsnap' = db
            /\ riter' = Ascending({i \in db.logs : i >= rq.from})
       ELSE /\ rpc' = "meta"
            /\ UNCHANGED <<rsnap, riter>>
    /\ UNCHANGED <<rch, rchRx, rmarkers, rcpc, rres, rret, logVars, streamVars,
                   clientVars, payloadVars, keyVars, restVars>>

\* a mutant of PastEnd: the entry at `until` is still read
PastEnd_inclusive(id, until) == id > until

\* `if bin_to_id(id.as_ref()) >= until { break; }`
PastEnd(id, until) == id >= until

\* one round of `for log in logs`, or its end and `let _ = ack.send(None)`.
\* outcome: what the iterator and bincode::deserialize make of the next entry
reader_logs(outcome) ==
    /\ rpc = "logs"
    /\ IF riter = <<>> \/ (outcome # "io_error" /\ PastEnd(Head(riter), rcur.until))
       THEN /\ rch' = Append(rch, 0)
            /\ rmarkers' = rmarkers + 1
            /\ rpc' = "idle"
            /\ riter' = <<>>
       ELSE IF outcome = "io_error"
       THEN IF rchRx
            THEN /\ rch' = rch \o <<-1, 0>>
                 /\ rmarkers' = rmarkers + 1
                 /\ rpc' = "idle"
                 /\ riter' = <<>>
            ELSE /\ rpc' = "panicked"
                 /\ UNCHANGED <<rch, rmarkers, riter>>
       ELSE IF outcome = "undecodable" \/ ~rchRx
       THEN /\ rpc' = "panicked"
            /\ UNCHANGED <<rch, rmarkers, riter>>
       ELSE /\ rch' = Append(rch, Head(riter))
            /\ riter' = Tail(riter)
            /\ UNCHANGED <<rpc, rmarkers>>
    /\ UNCHANGED <<rq, rcur, rsnap, rchRx, rcpc, rres, rret, logVars, streamVars,
                   clientVars, payloadVars, keyVars, restVars>>

\* ActionRead::LogState and ActionRead::Vote: the answer, or the error of the
\* store, goes to the oneshot with `ack.send(..).unwrap()`
reader_meta(ok) ==
    /\ rpc = "meta"
    /\ IF rchRx
       THEN /\ rch' = <<IF ~ok THEN -1
                        ELSE IF rcur.t = "Vote" THEN read_vote(db)
                        ELSE get_log_state(db).last_log_id>>
            /\ rpc' = "idle"
       ELSE /\ rpc' = "panicked"
            /\ UNCHANGED rch
    /\ UNCHANGED <<rq, rcur, riter, rsnap, rchRx, rmarkers, rcpc, rres, rret, logVars,
                   streamVars, clientVars, payloadVars, keyVars, restVars>>

\* `while let Some(entry) = rx.recv_async().await.unwrap() { res.push(entry?); }`
logs_recv ==
    /\ rcpc = "wait_logs"
    /\ rch # <<>>
    /\ rch' = Tail(rch)
    /\ IF Head(rch) = 0
       THEN /\ rret' = [ok |-> TRUE, t |-> "Logs", entries |-> rres, value |-> 0]
            /\ rcpc' = "returned"
            /\ rchRx' = FALSE
            /\ UNCHANGED rres
       ELSE IF Head(rch) = -1
       THEN /\ rret' = [ok |-> FALSE, t |-> "Logs", entries |-> <<>>, value |-> 0]
            /\ rcpc' = "returned"
            /\ rchRx' = FALSE
            /\ UNCHANGED rres
       ELSE /\ rres' = Append(rres, Head(rch))
            /\ UNCHANGED <<rret, rcpc, rchRx>>
    /\ UNCHANGED <<rq, rpc, rcur, riter, rsnap, rmarkers, logVars, streamVars,
                   clientVars, payloadVars, keyVars, restVars>>

\* `rx.await` of get_log_state and read_vote
meta_recv ==
    /\ rcpc = "wait_meta"
    /\ rch # <<>>
    /\ rch' = <<>>
    /\ rret' = [ok |-> Head(rch) # -1, t |-> rcur.t, entries |-> <<>>,
                value |-> IF Head(rch) = -1 THEN 0 ELSE Head(rch)]
    /\ rcpc' = "returned"
    /\ rchRx' = FALSE
    /\ UNCHANGED <<rq, rpc, rcur, riter, rsnap, rmarkers, rres, logVars, streamVars,
                   clientVars, payloadVars, keyVars, restVars>>

\* the future of the reading task is dropped while it waits: the receiver of its
\* ack channel is gone
read_dropped ==
    /\ rcpc \in {"wait_logs", "wait_meta"}
    /\ rcpc' = "dropped"
    /\ rchRx' = FALSE
    /\ rch' = <<>>
    /\ UNCHANGED <<rq, rpc, rcur, riter, rsnap, rmarkers, rres, rret, logVars,
                   streamVars, clientVars, payloadVars, keyVars, restVars>>

NextReader ==
    \/ entry_stored
    \/ \E k \in 1..MaxIndex : entries_purged(k)
    \/ \E v \in 1..MaxVote : vote_stored(v)
    \/ \E from \in 0..MaxIndex, until \in 0..U64Max : try_get_log_entries(from, until)
    \/ \E t \in {"LogState", "Vote"} : read_meta(t)
    \/ reader_recv
    \/ \E outcome \in {"entry", "undecodable", "io_error"} : reader_logs(outcome)
    \/ \E ok \in BOOLEAN : reader_meta(ok)
    \/ logs_recv
    \/ meta_recv
    \/ read_dropped

(***************************************************************************)
(* The keys of the column family "logs": id_to_bin and bin_to_id.  An index *)
(* is KeyBytes bytes wide here, and the ids are those whose bytes are drawn *)
(* from ByteSamples.                                                        *)
(***************************************************************************)
ByteSamples == {0, 1, 2, 255}

RECURSIVE Pow(_, _)
Pow(b, n) == IF n = 0 THEN 1 ELSE b * Pow(b, n - 1)

\* a mutant of id_to_bin: the bytes in little-endian order
id_to_bin_le(id) ==
    [i \in 1..KeyBytes |-> (id \div Pow(U8, i - 1)) % U8]

\* buf.write_u64::<BigEndian>(id): the most significant byte first
id_to_bin(id) ==
    [i \in 1..KeyBytes |-> (id \div Pow(U8, KeyBytes - i)) % U8]

\* (&buf[0..8]).read_u64::<BigEndian>()
RECURSIVE read_be(_, _)
read_be(buf, n) ==
    IF n = 0 THEN 0 ELSE read_be(buf, n - 1) * U8 + buf[n]

bin_to_id(buf) == read_be(buf, KeyBytes)

\* the order of the keys in the store: bytewise, the shorter of two keys first when
\* it is a prefix of the other
BytewiseLess(x, y) ==
    \/ \E i \in 1..Len(x) :
           /\ i <= Len(y)
           /\ \A j \in 1..(i - 1) : x[j] = y[j]
           /\ x[i] < y[i]
    \/ /\ Len(x) < Len(y)
       /\ \A j \in 1..Len(x) : x[j] = y[j]

Ids == {read_be(d, KeyBytes) : d \in [1..KeyBytes -> ByteSamples]}

InitKeys ==
    /\ kpc = "none"
    /\ id_a = 0
    /\ id_b = 0
    /\ buf_a = <<>>
    /\ buf_b = <<>>
    /\ kless = FALSE
    /\ kdec = 0

\* two entries are stored under the keys of their indexes
keys_encoded(a, b) ==
    /\ kpc = "none"
    /\ id_a' = a
    /\ id_b' = b
    /\ buf_a' = id_to_bin(a)
    /\ buf_b' = id_to_bin(b)
    /\ kpc' = "encoded"
    /\ UNCHANGED <<kless, kdec, nonKeyVars>>

\* the iterator of the store puts the two keys in order
keys_compared ==
    /\ kpc = "encoded"
    /\ kless' = BytewiseLess(buf_a, buf_b)
    /\ kpc' = "compared"
    /\ UNCHANGED <<id_a, id_b, buf_a, buf_b, kdec, nonKeyVars>>

\* the reader worker turns the key it is given back into an index
key_decoded ==
    /\ kpc = "compared"
    /\ kdec' = bin_to_id(buf_a)
    /\ kpc' = "decoded"
    /\ UNCHANGED <<id_a, id_b, buf_a, buf_b, kless, nonKeyVars>>

NextKeys ==
    \/ \E a \in Ids, b \in Ids : keys_encoded(a, b)
    \/ keys_compared
    \/ key_decoded

(***************************************************************************)
(* Shutdown of a local node: Client::shutdown_execute, the workers it        *)
(* signals and the tasks that watch the shutdown channel.                    *)
(***************************************************************************)
Tasks == 1..MaxTasks

InitShutdown ==
    /\ spc = "idle"
    /\ sret = "none"
    /\ raft_cache = "running"
    /\ raft_db = "running"
    /\ sql_writer = "running"
    /\ logs_writer = "running"
    /\ stream_shutdown = FALSE
    /\ tx_shutdown = "none"
    /\ stopped = {}

\* shutdown(): shutdown_execute is entered when the client has a local state.
\* tx: whether the client holds Some(tx_shutdown)
shutdown(local, tx) ==
    /\ spc = "idle"
    /\ IF local
       THEN /\ spc' = "raft_cache"
            /\ tx_shutdown' = IF tx THEN "false" ELSE "none"
            /\ UNCHANGED sret
       ELSE /\ spc' = "returned"
            /\ sret' = "err"
            /\ UNCHANGED tx_shutdown
    /\ UNCHANGED <<raft_cache, raft_db, sql_writer, logs_writer, stream_shutdown,
                   stopped, nonShutdownVars>>

\* state.raft_cache.raft.shutdown().await
raft_cache_shutdown(ok) ==
    /\ spc = "raft_cache"
    /\ IF ok
       THEN /\ raft_cache' = "stopped"
            /\ spc' = "raft_db"
            /\ UNCHANGED sret
       ELSE /\ sret' = "err"
            /\ spc' = "returned"
            /\ UNCHANGED raft_cache
    /\ UNCHANGED <<raft_db, sql_writer, logs_writer, stream_shutdown, tx_shutdown,
                   stopped, nonShutdownVars>>

\* state.raft_db.raft.shutdown().await
raft_db_shutdown(ok) ==
    /\ spc = "raft_db"
    /\ IF ok
       THEN /\ raft_db' = "stopped"
            /\ spc' = "sql_writer"
            /\ UNCHANGED sret
       ELSE /\ sret' = "err"
            /\ spc' = "returned"
            /\ UNCHANGED raft_db
    /\ UNCHANGED <<raft_cache, sql_writer, logs_writer, stream_shutdown, tx_shutdown,
                   stopped, nonShutdownVars>>

\* sql_writer.send_async(WriterRequest::Shutdown(tx)).await
send_sql_writer_shutdown ==
    /\ spc = "sql_writer"
    /\ sql_writer' = "signalled"
    /\ spc' = "logs_writer"
    /\ UNCHANGED <<sret, raft_cache, raft_db, logs_writer, stream_shutdown, tx_shutdown,
                   stopped, nonShutdownVars>>

\* `if logs_writer.send_async(ActionWrite::Shutdown).await.is_ok() { rx.await.. }`
AfterLogsWriterSend(is_ok) == IF is_ok THEN "await_sql_writer" ELSE "tx_client"

\* logs_writer.send_async(ActionWrite::Shutdown).await
send_logs_writer_shutdown ==
    /\ spc = "logs_writer"
    /\ logs_writer' = IF logs_writer = "running" THEN "signalled" ELSE logs_writer
    /\ spc' = AfterLogsWriterSend(logs_writer = "running")
    /\ UNCHANGED <<sret, raft_cache, raft_db, sql_writer, stream_shutdown, tx_shutdown,
                   stopped, nonShutdownVars>>

\* rx.await.expect("To always get an answer from SQL writer")
await_sql_writer ==
    /\ spc = "await_sql_writer"
    /\ sql_writer = "done"
    /\ spc' = "tx_client"
    /\ UNCHANGED <<sret, raft_cache, raft_db, sql_writer, logs_writer, stream_shutdown,
                   tx_shutdown, stopped, nonShutdownVars>>

\* `let _ = tx_client.send_async(ClientStreamReq::Shutdown).await`
send_client_stream_shutdown ==
    /\ spc = "tx_client"
    /\ stream_shutdown' = TRUE
    /\ spc' = "tx_shutdown"
    /\ UNCHANGED <<sret, raft_cache, raft_db, sql_writer, logs_writer, tx_shutdown,
                   stopped, nonShutdownVars>>

\* `if let Some(tx) = tx_shutdown { tx.send(true).unwrap(); }`
send_tx_shutdown ==
    /\ spc = "tx_shutdown"
    /\ tx_shutdown' = IF tx_shutdown = "none" THEN "none" ELSE "true"
    /\ spc' = "sleep"
    /\ UNCHANGED <<sret, raft_cache, raft_db, sql_writer, logs_writer, stream_shutdown,
                   stopped, nonShutdownVars>>

\* time::sleep(Duration::from_millis(200)).await; Ok(())
shutdown_returns ==
    /\ spc = "sleep"
    /\ sret' = "ok"
    /\ spc' = "returned"
    /\ UNCHANGED <<raft_cache, raft_db, sql_writer, logs_writer, stream_shutdown,
                   tx_shutdown, stopped, nonShutdownVars>>

\* the SQL writer has done what it does on Shutdown and answers on the oneshot
sql_writer_answers ==
    /\ sql_writer = "signalled"
    /\ sql_writer' = "done"
    /\ UNCHANGED <<spc, sret, raft_cache, raft_db, logs_writer, stream_shutdown,
                   tx_shutdown, stopped, nonShutdownVars>>

\* the log writer is gone before it is signalled: the send to it fails
logs_writer_exits ==
    /\ raft_db = "stopped"
    /\ logs_writer = "running"
    /\ logs_writer' = "gone"
    /\ UNCHANGED <<spc, sret, raft_cache, raft_db, sql_writer, stream_shutdown,
                   tx_shutdown, stopped, nonShutdownVars>>

\* shutdown_signal: a task that watches the channel sees the change
shutdown_signal(t) ==
    /\ tx_shutdown = "true"
    /\ t \notin stopped
    /\ stopped' = stopped \cup {t}
    /\ UNCHANGED <<spc, sret, raft_cache, raft_db, sql_writer, logs_writer,
                   stream_shutdown, tx_shutdown, nonShutdownVars>>

NextShutdown ==
    \/ \E local \in BOOLEAN, tx \in BOOLEAN : shutdown(local, tx)
    \/ \E ok \in BOOLEAN : raft_cache_shutdown(ok)
    \/ \E ok \in BOOLEAN : raft_db_shutdown(ok)
    \/ send_sql_writer_shutdown
    \/ send_logs_writer_shutdown
    \/ await_sql_writer
    \/ send_client_stream_shutdown
    \/ send_tx_shutdown
    \/ shutdown_returns
    \/ sql_writer_answers
    \/ logs_writer_exits
    \/ \E t \in Tasks : shutdown_signal(t)

(***************************************************************************)
(* The management handlers of one node: add_learner, become_member and      *)
(* change_membership, the node-wide raft_lock and the membership config.    *)
(***************************************************************************)
Handlers == 1..MaxHandlers

\* state.id of the node whose handlers these are
ThisNode == 1

NoError == [kind |-> "none", id |-> 0]

InitMembership ==
    /\ mpc = [h \in Handlers |-> "idle"]
    /\ mkind = [h \in Handlers |-> "none"]
    /\ mbody = [h \in Handlers |-> {}]
    /\ mret = [h \in Handlers |-> "none"]
    /\ raft_lock = 0
    /\ voters = {}
    /\ mnodes = {}
    /\ msecret = [h \in Handlers |-> TRUE]
    /\ merr = [h \in Handlers |-> NoError]
    /\ m_leader = 0
    /\ m_init = FALSE

\* election in progress would be answered with the redirect of no leader
HandlerError_redirect(check) ==
    IF check \in {"forward", "election"}
    THEN [kind |-> "CheckIsLeaderError", id |-> m_leader]
    ELSE [kind |-> check, id |-> 0]

\* the Error a handler returns for what it found: the error of validate_secret,
\* Error::Error("Raft is not initialized"), Error::CheckIsLeaderError with the
\* leader's id and node, Error::LeaderChange, the error of bincode::deserialize
HandlerError(check) ==
    CASE check = "forward" -> [kind |-> "CheckIsLeaderError", id |-> m_leader]
      [] check = "election" -> [kind |-> "LeaderChange", id |-> 0]
      [] check = "not_initialized" -> [kind |-> "Error", id |-> 0]
      [] OTHER -> [kind |-> check, id |-> 0]

\* a handler returns Err before it reaches Raft
ReturnsErr(h, check) ==
    /\ mret' = [mret EXCEPT ![h] = "err"]
    /\ merr' = [merr EXCEPT ![h] = HandlerError(check)]
    /\ msecret' = [msecret EXCEPT ![h] = check # "secret"]
    /\ UNCHANGED <<mpc, mkind, mbody>>

\* a handler calls into Raft
CallsRaft(h, kind, set) ==
    /\ mpc' = [mpc EXCEPT ![h] = "raft"]
    /\ mkind' = [mkind EXCEPT ![h] = kind]
    /\ mbody' = [mbody EXCEPT ![h] = set]
    /\ mret' = [mret EXCEPT ![h] = "none"]
    /\ merr' = [merr EXCEPT ![h] = NoError]
    /\ msecret' = [msecret EXCEPT ![h] = TRUE]

\* what add_learner finds before it calls Raft: a wrong secret, a Raft that is not
\* initialized, another node as leader, no leader, a body that does not decode
LearnerChecks == {"ok", "secret", "not_initialized", "forward", "election", "body"}

\* what become_member and change_membership find before they go on
MemberChecks == {"ok", "secret", "body"}

\* the checks of add_learner in their order: the secret and the body are the
\* request's, the rest is the state of Raft on this node
Finds(check) ==
    CASE check = "secret" -> TRUE
      [] check = "not_initialized" -> ~m_init
      [] check = "election" -> m_init /\ m_leader = 0
      [] check = "forward" -> m_init /\ m_leader \notin {0, ThisNode}
      [] OTHER -> m_init /\ m_leader = ThisNode

\* add_learner up to `state.raft.add_learner(node_id, node, true)`
add_learner(h, check, node_id) ==
    /\ mpc[h] = "idle"
    /\ Finds(check)
    /\ IF check = "ok"
       THEN CallsRaft(h, "add_learner", {node_id})
       ELSE ReturnsErr(h, check)
    /\ UNCHANGED <<raft_lock, voters, mnodes, m_leader, m_init, nonMembershipVars>>

\* become_member up to `state.raft_lock.lock().await`
become_member(h, check, node_id) ==
    /\ mpc[h] = "idle"
    /\ IF check = "ok"
       THEN /\ mpc' = [mpc EXCEPT ![h] = "lock"]
            /\ mkind' = [mkind EXCEPT ![h] = "become_member"]
            /\ mbody' = [mbody EXCEPT ![h] = {node_id}]
            /\ mret' = [mret EXCEPT ![h] = "none"]
            /\ merr' = [merr EXCEPT ![h] = NoError]
            /\ msecret' = [msecret EXCEPT ![h] = TRUE]
       ELSE ReturnsErr(h, check)
    /\ UNCHANGED <<raft_lock, voters, mnodes, m_leader, m_init, nonMembershipVars>>

\* become_member from the lock to `state.raft.change_membership(nodes_set, true)`
become_member_locked(h) ==
    /\ mpc[h] = "lock"
    /\ raft_lock = 0
    /\ raft_lock' = h
    /\ mpc' = [mpc EXCEPT ![h] = "raft"]
    /\ mbody' = [mbody EXCEPT ![h] = mnodes \cup @]
    /\ UNCHANGED <<mkind, mret, voters, mnodes, msecret, merr, m_leader, m_init,
                   nonMembershipVars>>

\* change_membership up to `state.raft.change_membership(payload, false)`
change_membership(h, check, payload) ==
    /\ mpc[h] = "idle"
    /\ IF check = "ok"
       THEN CallsRaft(h, "change_membership", payload)
       ELSE ReturnsErr(h, check)
    /\ UNCHANGED <<raft_lock, voters, mnodes, m_leader, m_init, nonMembershipVars>>

\* the membership config after the Raft operation of handler h
NewVoters(h) ==
    IF mkind[h] = "add_learner" THEN voters ELSE mbody[h]

NewNodes(h) ==
    IF mkind[h] = "change_membership"
    THEN (mnodes \ voters) \cup mbody[h]
    ELSE mnodes \cup mbody[h]

\* the Raft operation returns and the handler with it; _lock is dropped. Raft
\* does the operation on the leader only, and a leader that is no voter of the
\* new config steps down
raft_returns(h, ok) ==
    /\ mpc[h] = "raft"
    /\ ok => m_leader = ThisNode
    /\ mpc' = [mpc EXCEPT ![h] = "idle"]
    /\ mret' = [mret EXCEPT ![h] = IF ok THEN "ok" ELSE "err"]
    /\ merr' = [merr EXCEPT ![h] = IF ok THEN NoError ELSE [kind |-> "Raft", id |-> 0]]
    /\ voters' = IF ok THEN NewVoters(h) ELSE voters
    /\ mnodes' = IF ok THEN NewNodes(h) ELSE mnodes
    /\ raft_lock' = IF raft_lock = h THEN 0 ELSE raft_lock
    /\ mkind' = [mkind EXCEPT ![h] = "none"]
    /\ mbody' = [mbody EXCEPT ![h] = {}]
    /\ m_leader' = IF ok /\ m_leader \notin NewVoters(h) THEN 0 ELSE m_leader
    /\ UNCHANGED <<msecret, m_init, nonMembershipVars>>

\* init: validate_secret, then raft.initialize with this node as the only member,
\* which Raft refuses once it is initialized
init(h, secret_ok) ==
    /\ mpc[h] = "idle"
    /\ IF ~secret_ok
       THEN /\ ReturnsErr(h, "secret")
            /\ UNCHANGED <<voters, mnodes, m_init>>
       ELSE /\ msecret' = [msecret EXCEPT ![h] = TRUE]
            /\ UNCHANGED <<mpc, mkind, mbody>>
            /\ IF m_init
               THEN /\ mret' = [mret EXCEPT ![h] = "err"]
                    /\ merr' = [merr EXCEPT ![h] = [kind |-> "Raft", id |-> 0]]
                    /\ UNCHANGED <<voters, mnodes, m_init>>
               ELSE /\ mret' = [mret EXCEPT ![h] = "ok"]
                    /\ merr' = [merr EXCEPT ![h] = NoError]
                    /\ voters' = {ThisNode}
                    /\ mnodes' = {ThisNode}
                    /\ m_init' = TRUE
    /\ UNCHANGED <<raft_lock, m_leader, nonMembershipVars>>

\* metrics that answers whoever asks
metrics_open(h, secret_ok) ==
    /\ mpc[h] = "idle"
    /\ mret' = [mret EXCEPT ![h] = "ok"]
    /\ merr' = [merr EXCEPT ![h] = NoError]
    /\ msecret' = [msecret EXCEPT ![h] = secret_ok]
    /\ UNCHANGED <<mpc, mkind, mbody, raft_lock, voters, mnodes, m_leader, m_init,
                   nonMembershipVars>>

\* metrics: validate_secret, then the metrics of the local Raft
metrics(h, secret_ok) ==
    /\ mpc[h] = "idle"
    /\ IF secret_ok
       THEN /\ mret' = [mret EXCEPT ![h] = "ok"]
            /\ merr' = [merr EXCEPT ![h] = NoError]
            /\ msecret' = [msecret EXCEPT ![h] = TRUE]
            /\ UNCHANGED <<mpc, mkind, mbody>>
       ELSE ReturnsErr(h, "secret")
    /\ UNCHANGED <<raft_lock, voters, mnodes, m_leader, m_init, nonMembershipVars>>

\* `pub async fn ping() {}`: no state, no headers, 200
ping(h, secret_ok) ==
    /\ mpc[h] = "idle"
    /\ mret' = [mret EXCEPT ![h] = "ok"]
    /\ merr' = [merr EXCEPT ![h] = NoError]
    /\ msecret' = [msecret EXCEPT ![h] = secret_ok]
    /\ UNCHANGED <<mpc, mkind, mbody, raft_lock, voters, mnodes, m_leader, m_init,
                   nonMembershipVars>>

\* Raft on this node learns of a leader among the voters, or of none
leader_elected(l) ==
    /\ m_init
    /\ l # m_leader
    /\ l \in voters \cup {0}
    /\ m_leader' = l
    /\ UNCHANGED <<mpc, mkind, mbody, mret, raft_lock, voters, mnodes, msecret, merr,
                   m_init, nonMembershipVars>>

NextMembership ==
    \/ \E h \in Handlers, check \in LearnerChecks, id \in Nodes :
           add_learner(h, check, id)
    \/ \E h \in Handlers, check \in MemberChecks, id \in Nodes :
           become_member(h, check, id)
    \/ \E h \in Handlers : become_member_locked(h)
    \/ \E h \in Handlers, check \in MemberChecks, payload \in SUBSET Nodes :
           change_membership(h, check, payload)
    \/ \E h \in Handlers, ok \in BOOLEAN : raft_returns(h, ok)
    \/ \E h \in Handlers, secret_ok \in BOOLEAN : init(h, secret_ok)
    \/ \E h \in Handlers, secret_ok \in BOOLEAN : metrics(h, secret_ok)
    \/ \E h \in Handlers, secret_ok \in BOOLEAN : ping(h, secret_ok)
    \/ \E l \in 0..MaxNode : leader_elected(l)

(***************************************************************************)
(* One key of one cache in a cluster: the clients' get, put and delete, the *)
(* cache Raft group and the cache state machine of every node.  A value is  *)
(* the index of the Put that wrote it, 0 is "no value".                     *)
(***************************************************************************)
\* client 0 is a remote client, client n the client in the process of node n
CacheClients == 0..MaxNode

NoGet == [client |-> -1, value |-> 0]

InitCache ==
    /\ cache_log = <<>>
    /\ kvs = [n \in Nodes |-> 0]
    /\ kv_applied = [n \in Nodes |-> 0]
    /\ cache_leader = 1
    /\ last_writer = -1
    /\ cache_ret = "none"
    /\ cgot = NoGet

\* the cache state machine applies one CacheRequest to the value of the key
kv_apply(value, req, index) ==
    CASE req = "Put" -> index
      [] req = "Delete" -> 0
      [] OTHER -> value

\* the value of the key after the entries 1..n of the log
RECURSIVE kv_after(_, _)
kv_after(log, n) ==
    IF n = 0 THEN 0 ELSE kv_apply(kv_after(log, n - 1), log[n], n)

\* raft_cache.raft.client_write(cache_req) on the leader: the request is committed,
\* the leader has applied it when its response is returned
client_write_cache(req) ==
    /\ cache_log' = Append(cache_log, req)
    /\ kvs' = [kvs EXCEPT ![cache_leader] = kv_after(cache_log', Len(cache_log'))]
    /\ kv_applied' = [kv_applied EXCEPT ![cache_leader] = Len(cache_log')]

\* put and delete: cache_req_retry sends the request to the leader, through
\* client_write when this client is the leader's, through the stream otherwise
cache_write(c, req, ok) ==
    /\ Len(cache_log) < MaxCacheOps
    /\ IF ok
       THEN /\ client_write_cache(req)
            /\ last_writer' = c
            /\ cache_ret' = "ok"
            /\ cgot' = NoGet
       ELSE /\ cache_ret' = "err"
            /\ UNCHANGED <<cache_log, kvs, kv_applied, last_writer, cgot>>
    /\ UNCHANGED <<cache_leader, nonCacheVars>>

\* `if let Some(state) = &self.inner.state`: get answers from the kv handler of
\* the node of the client
LocalGet(c) == c \in Nodes

\* get
cache_get(c) ==
    /\ IF LocalGet(c)
       THEN /\ cgot' = [client |-> c, value |-> kvs[c]]
            /\ UNCHANGED <<cache_log, kvs, kv_applied>>
       ELSE /\ Len(cache_log) < MaxCacheOps
            /\ client_write_cache("Get")
            /\ cgot' = [client |-> c, value |-> kvs'[cache_leader]]
    /\ cache_ret' = "ok"
    /\ UNCHANGED <<cache_leader, last_writer, nonCacheVars>>

\* the state machine of node n applies the next committed entry
cache_applied(n) ==
    /\ kv_applied[n] < Len(cache_log)
    /\ kv_applied' = [kv_applied EXCEPT ![n] = @ + 1]
    /\ kvs' = [kvs EXCEPT ![n] = kv_apply(@, cache_log[kv_applied[n] + 1],
                                         kv_applied[n] + 1)]
    /\ UNCHANGED <<cache_log, cache_leader, last_writer, cache_ret, cgot, nonCacheVars>>

\* another node becomes the leader of the cache Raft group
cache_leader_elected(n) ==
    /\ n # cache_leader
    /\ cache_leader' = n
    /\ UNCHANGED <<cache_log, kvs, kv_applied, last_writer, cache_ret, cgot,
                   nonCacheVars>>

NextCache ==
    \/ \E c \in CacheClients, req \in {"Put", "Delete"}, ok \in BOOLEAN :
           cache_write(c, req, ok)
    \/ \E c \in CacheClients : cache_get(c)
    \/ \E n \in Nodes : cache_applied(n)
    \/ \E n \in Nodes : cache_leader_elected(n)

(***************************************************************************)
(* The SQL tier of a cluster: the clients' execute, query and migrate, the  *)
(* SQL Raft group and the SQLite state machine of every node.  The clients  *)
(* insert one row, `INSERT INTO test VALUES (1, ..)`, and select it.        *)
(***************************************************************************)
NoSqlCall == [client |-> 0, call |-> "none", ret |-> "none"]

NoQuery == [client |-> 0, found |-> FALSE]

\* the database file of a node: whether the row is in `test`, the tables the
\* migrations created, the rows of `_migrations`
EmptySqlite == [row |-> FALSE, tables |-> {}, migrations |-> <<>>]

\* the two migration sets of the tests: `good`, and `bad_3` whose second file has
\* a syntax error.  hash: SHA-256 of the content, here the content itself
Migrations(set) ==
    IF set = "good"
    THEN << [id |-> 1, name |-> "init", hash |-> "good/1", valid |-> TRUE,
             table |-> "test_1"],
            [id |-> 2, name |-> "another_migration", hash |-> "good/2", valid |-> TRUE,
             table |-> "test_2"] >>
    ELSE << [id |-> 1, name |-> "init", hash |-> "bad/1", valid |-> TRUE,
             table |-> "bad_1"],
            [id |-> 2, name |-> "bad", hash |-> "bad/2", valid |-> FALSE,
             table |-> "bad_2"] >>

\* the row of `_migrations` a migration leaves
AppliedMigration(m) == [id |-> m.id, name |-> m.name, hash |-> m.hash]

\* Migration: the migrations from the i-th on, each in a transaction of its own
RECURSIVE apply_migrations(_, _, _)
apply_migrations(st, migs, i) ==
    IF i > Len(migs) THEN [st |-> st, resp |-> "ok"]
    ELSE LET m == migs[i]
         IN  IF \E j \in 1..Len(st.migrations) : st.migrations[j].id = m.id
             THEN IF \E j \in 1..Len(st.migrations) :
                         st.migrations[j].id = m.id /\ st.migrations[j].hash = m.hash
                  THEN apply_migrations(st, migs, i + 1)
                  ELSE [st |-> st, resp |-> "err"]
             ELSE IF m.valid /\ m.id = Len(st.migrations) + 1
                  THEN apply_migrations(
                           [st EXCEPT !.tables = @ \cup {m.table},
                                      !.migrations = Append(@, AppliedMigration(m))],
                           migs, i + 1)
                  ELSE [st |-> st, resp |-> "err"]

\* the SQLite state machine applies one command and answers it
sm_apply(st, cmd) ==
    IF cmd.t = "Execute"
    THEN IF st.row
         THEN [st |-> st, resp |-> "UNIQUE constraint failed"]
         ELSE [st |-> [st EXCEPT !.row = TRUE], resp |-> "1"]
    ELSE apply_migrations(st, Migrations(cmd.set), 1)

\* a mutant of NextToApply: a node that is behind applies the newest entry
NextToApply_newest(n) == Len(sql_log)

\* the entry the state machine of node n applies next
NextToApply(n) == sql_applied[n] + 1

\* node n applies the entries up to index k, one after the other
RECURSIVE applied_up_to(_, _, _, _, _)
applied_up_to(st, resps, log, from, k) ==
    IF from > k THEN [st |-> st, resps |-> resps]
    ELSE LET r == sm_apply(st, log[from])
         IN  applied_up_to(r.st, Append(resps, r.resp), log, from + 1, k)

InitSql ==
    /\ sql_log = <<>>
    /\ sqlite = [n \in Nodes |-> EmptySqlite]
    /\ sql_applied = [n \in Nodes |-> 0]
    /\ sql_resp = [n \in Nodes |-> <<>>]
    /\ sql_leader = 1
    /\ sql_call = NoSqlCall
    /\ qres = NoQuery

\* raft_db.raft.client_write(cmd) on the leader: the command is committed, and the
\* leader has applied it when it returns the response of its state machine
client_write_sql(cmd) ==
    /\ sql_log' = Append(sql_log, cmd)
    /\ LET r == applied_up_to(sqlite[sql_leader], sql_resp[sql_leader], sql_log',
                              sql_applied[sql_leader] + 1, Len(sql_log'))
       IN  /\ sqlite' = [sqlite EXCEPT ![sql_leader] = r.st]
           /\ sql_resp' = [sql_resp EXCEPT ![sql_leader] = r.resps]
    /\ sql_applied' = [sql_applied EXCEPT ![sql_leader] = Len(sql_log')]

\* what a call returns for the response of the state machine
Returned(resp) == IF resp \in {"1", "ok"} THEN "ok" ELSE "err"

\* DbClient::execute of the insert by the client of node c: the command goes to
\* the leader, through client_write or through the stream.
\* ok: whether client_write succeeds
sql_execute(c, ok) ==
    /\ Len(sql_log) < MaxSqlOps
    /\ IF ok
       THEN /\ client_write_sql([t |-> "Execute", set |-> "none"])
            /\ sql_call' = [client |-> c, call |-> "execute",
                            ret |-> Returned(sql_resp'[sql_leader][Len(sql_log')])]
       ELSE /\ sql_call' = [client |-> c, call |-> "execute", ret |-> "err"]
            /\ UNCHANGED <<sql_log, sqlite, sql_applied, sql_resp>>
    /\ qres' = NoQuery
    /\ UNCHANGED <<sql_leader, nonSqlVars>>

\* DbClient::query_map and query_as of the row by the client of node c: a read of
\* the database file of node c
sql_query(c) ==
    /\ qres' = [client |-> c, found |-> sqlite[c].row]
    /\ UNCHANGED <<sql_log, sqlite, sql_applied, sql_resp, sql_leader, sql_call,
                   nonSqlVars>>

\* DbClient::migrate: `todo!()`
sql_migrate(c, set) ==
    /\ sql_call' = [client |-> c, call |-> set, ret |-> "panicked"]
    /\ qres' = NoQuery
    /\ UNCHANGED <<sql_log, sqlite, sql_applied, sql_resp, sql_leader, nonSqlVars>>

\* ApiStreamRequestPayload::Migrate read from the stream of some client
stream_migrate(set, ok) ==
    /\ Len(sql_log) < MaxSqlOps
    /\ IF ok
       THEN client_write_sql([t |-> "Migration", set |-> set])
       ELSE UNCHANGED <<sql_log, sqlite, sql_applied, sql_resp>>
    /\ sql_call' = NoSqlCall
    /\ qres' = NoQuery
    /\ UNCHANGED <<sql_leader, nonSqlVars>>

\* the state machine of node n applies the next committed entry
sql_applied_next(n) ==
    /\ sql_applied[n] < Len(sql_log)
    /\ LET i == NextToApply(n)
           r == sm_apply(sqlite[n], sql_log[i])
       IN  /\ sqlite' = [sqlite EXCEPT ![n] = r.st]
           /\ sql_resp' = [sql_resp EXCEPT ![n] = Append(@, r.resp)]
           /\ sql_applied' = [sql_applied EXCEPT ![n] = i]
    /\ UNCHANGED <<sql_log, sql_leader, sql_call, qres, nonSqlVars>>

\* another node becomes the leader of the SQL Raft group
sql_leader_elected(n) ==
    /\ n # sql_leader
    /\ sql_leader' = n
    /\ UNCHANGED <<sql_log, sqlite, sql_applied, sql_resp, sql_call, qres, nonSqlVars>>

\* the commands of the SQL state machine
SqlCommands ==
    {[t |-> "Execute", set |-> "none"], [t |-> "Migration", set |-> "good"],
     [t |-> "Migration", set |-> "bad"]}

\* raft_db.raft.client_write(cmd) for whichever caller
raft_client_write(cmd) ==
    /\ Len(sql_log) < MaxSqlOps
    /\ client_write_sql(cmd)
    /\ UNCHANGED <<sql_leader, sql_call, qres, nonSqlVars>>

NextRaftDb ==
    \/ \E cmd \in SqlCommands : raft_client_write(cmd)
    \/ \E n \in Nodes : sql_applied_next(n)
    \/ \E n \in Nodes : sql_leader_elected(n)

NextSql ==
    \/ \E c \in Nodes, ok \in BOOLEAN : sql_execute(c, ok)
    \/ \E c \in Nodes : sql_query(c)
    \/ \E c \in Nodes, set \in {"good", "bad"} : sql_migrate(c, set)
    \/ \E set \in {"good", "bad"}, ok \in BOOLEAN : stream_migrate(set, ok)
    \/ \E n \in Nodes : sql_applied_next(n)
    \/ \E n \in Nodes : sql_leader_elected(n)

(***************************************************************************)
(* The streams of remote clients at one server: DbClient::new, the          *)
(* handshake of handle_socket_concurrent and the lookup in                  *)
(* state.client_buffers.                                                    *)
(***************************************************************************)
InitConnect ==
    /\ client_buffers = {}
    /\ rc_id = [p \in Callers |-> 0]
    /\ rc_st = [p \in Callers |-> "none"]

\* the node ids a client may be created with: those of the nodes and one more
ClientIds == 1..(MaxNode + 1)

\* start_node: one buffer per node of node_config.nodes
start_node(n) ==
    /\ client_buffers = {}
    /\ client_buffers' = 1..n
    /\ UNCHANGED <<rc_id, rc_st, nonConnectVars>>

\* DbClient::new(node_id, ..): the client and its stream task, which will connect
\* with node_id
open_stream(p, node_id) ==
    /\ rc_st[p] = "none"
    /\ rc_id' = [rc_id EXCEPT ![p] = node_id]
    /\ rc_st' = [rc_st EXCEPT ![p] = "created"]
    /\ UNCHANGED <<client_buffers, nonConnectVars>>

\* HandshakeSecret::server: the client's node id when its proof of the API secret
\* is right, 0 for Err
HandshakeServer(ok, id) == IF ok THEN id ELSE 0

\* state.client_buffers.get(&client_id).expect(..): the connection task goes on
\* with the buffer or panics
BufferLookup(bufs, id) == IF id \in bufs THEN "open" ELSE "aborted"

\* handle_socket_concurrent from the handshake to the buffer of the client
stream_handshake(p, ok) ==
    /\ client_buffers # {}
    /\ rc_st[p] \in {"created", "refused", "aborted"}
    /\ LET client_id == HandshakeServer(ok, rc_id[p]) IN
       rc_st' = [rc_st EXCEPT ![p] = IF client_id = 0 THEN "refused"
                                     ELSE BufferLookup(client_buffers, client_id)]
    /\ UNCHANGED <<client_buffers, rc_id, nonConnectVars>>

\* the connection ends and the client will connect again
stream_closed(p) ==
    /\ rc_st[p] = "open"
    /\ rc_st' = [rc_st EXCEPT ![p] = "created"]
    /\ UNCHANGED <<client_buffers, rc_id, nonConnectVars>>

NextConnect ==
    \/ \E n \in Nodes : start_node(n)
    \/ \E p \in Callers, node_id \in ClientIds : open_stream(p, node_id)
    \/ \E p \in Callers, ok \in BOOLEAN : stream_handshake(p, ok)
    \/ \E p \in Callers : stream_closed(p)

(***************************************************************************)
(* The specifications.                                                      *)
(***************************************************************************)
Init == InitLog /\ InitStream /\ InitClient /\ InitPayload /\ InitReader /\ InitKeys
        /\ InitShutdown
        /\ InitMembership
        /\ InitCache
        /\ InitSql
        /\ InitConnect

SpecLog == Init /\ [][NextLog]_vars

\* the log store of a process that keeps running
NextRunning ==
    \/ \E n \in 1..MaxBatch : append(n)
    \/ append_send
    \/ append_await
    \/ writer_append_start
    \/ writer_append_recv
    \/ writer_append_tail
    \/ \E v \in 1..MaxVote : save_vote(v)
    \/ writer_vote
    \/ save_vote_await
    \/ \E k \in 1..MaxIndex : purge(k)
    \/ \E from \in 1..MaxIndex : truncate(from)
    \/ writer_remove_delete
    \/ writer_remove_finish
    \/ remove_await
    \/ submit_sync
    \/ writer_sync

SpecRunning == Init /\ [][NextRunning]_vars

SpecStream == Init /\ [][NextStream]_vars

SpecClient == Init /\ [][NextClient]_vars

SpecAdmin == Init /\ [][NextAdmin]_vars

SpecPayload == Init /\ [][NextPayload]_vars

SpecReader == Init /\ [][NextReader]_vars

SpecKeys == Init /\ [][NextKeys]_vars

SpecShutdown == Init /\ [][NextShutdown]_vars

SpecMembership == Init /\ [][NextMembership]_vars

\* the requests to the management endpoints that are in flight at a time when
\* the endpoints are looked at request by request
MaxInFlight == 1

NextEndpoints ==
    \/ \E h \in 1..MaxInFlight, check \in LearnerChecks, id \in Nodes :
           add_learner(h, check, id)
    \/ \E h \in 1..MaxInFlight, check \in MemberChecks, id \in Nodes :
           become_member(h, check, id)
    \/ \E h \in 1..MaxInFlight : become_member_locked(h)
    \/ \E h \in 1..MaxInFlight, check \in MemberChecks, payload \in SUBSET Nodes :
           change_membership(h, check, payload)
    \/ \E h \in 1..MaxInFlight, ok \in BOOLEAN : raft_returns(h, ok)
    \/ \E h \in 1..MaxInFlight, secret_ok \in BOOLEAN : init(h, secret_ok)
    \/ \E h \in 1..MaxInFlight, secret_ok \in BOOLEAN : metrics(h, secret_ok)
    \/ \E h \in 1..MaxInFlight, secret_ok \in BOOLEAN : ping(h, secret_ok)
    \/ \E l \in 0..MaxNode : leader_elected(l)

SpecEndpoints == Init /\ [][NextEndpoints]_vars

C36_BecomeMemberAddsOnlyX ==
    [][\A h \in Handlers :
          become_member_locked(h) => mbody'[h] = voters \cup mbody[h]]_vars

SpecCache == Init /\ [][NextCache]_vars

SpecSql == Init /\ [][NextSql]_vars

SpecConnect == Init /\ [][NextConnect]_vars

\* the SQL Raft group by itself: commands are committed, nodes apply them, and
\* the Raft instance of a running node keeps handing committed entries to its
\* state machine
SpecSqlFair ==
    /\ Init
    /\ [][NextRaftDb]_vars
    /\ \A n \in Nodes : WF_vars(sql_applied_next(n))

(***************************************************************************)
(* Claims about the stream server, checked under SpecStream.                *)
(***************************************************************************)
InChannels(r) == Sum([k \in Conns |-> Count(rxw[k], r)])

InFlight(r) == Sum([k \in Conns |-> inflight[k][r]])

\* C1: every request read from the stream gets exactly one response carrying its
\* request_id (one per request whose handler finished, none for one still in
\* flight, so every applied write has one), and after any socket write failures,
\* disconnects and reconnects each response produced is in exactly one place: on
\* its way to the writer task, written to a connection of the client, or held in
\* the client's buffer.
C1_OneResponseNeverLost ==
    \A r \in Reqs :
        /\ produced[r] + InFlight(r) = dispatched[r]
        /\ applied[r] <= produced[r]
        /\ produced[r] = written[r] + Count(buffer, r) + InChannels(r)

\* C1 witness: the response of an applied write was kept in the buffer and written
\* to a later connection of the client.
C1_Witness ==
    \E r \in redelivered : applied[r] = 1 /\ produced[r] = 1 /\ written[r] = 1

\* C2: no write is applied twice because the client re-sends its request after a
\* reconnect: client_write succeeds at most once per request_id.
C2_NoWriteAppliedTwice ==
    \A r \in Reqs : applied[r] <= 1

\* C12: on every (re)connection the responses in the buffer are written to the new
\* connection in the order in which they were buffered, also after failed
\* reconnection attempts.
C12_BufferWrittenInBufferedOrder ==
    \A k \in Conns :
        \A i, j \in 1..Len(drained[k]) : i < j => drained[k][i] < drained[k][j]

\* C27: nothing of a connection is processed before its handshake has succeeded:
\* a connection whose handshake failed gets the close frame of the handshake and
\* nothing else: no buffered payload is written to it, no writer task and no read
\* loop is started for it, and no request is dispatched or answered on it.
C27_NothingBeforeHandshake ==
    \A k \in Conns :
        /\ hs[k] # "ok" =>
               /\ cst[k] \in {"new", "closed"}
               /\ creader[k] = "none" /\ cwriter[k] = "none"
               /\ drained[k] = <<>>
               /\ rxw[k] = <<>>
               /\ \A r \in Reqs : inflight[k][r] = 0
        /\ hs[k] = "err" => close_frame[k] = "Invalid Handshake"
        /\ hs[k] = "none" => close_frame[k] = "none"

\* C27 witness: a handshake has failed while the buffer held a response and the
\* client had a request without a response.
C27_Witness ==
    \E k \in Conns :
        hs[k] = "err" /\ cst[k] = "closed" /\ buffer # <<>> /\ Unanswered # {}

\* the writer task of connection k has taken every message sent to it, the
\* Breaks of the read loop included
WriterDrained(k) == creader[k] = "done" /\ cwriter[k] = "w2" /\ rxw[k] = <<>>

C29_RequestsHandledConcurrently ==
    \A k \in Conns : \A q \in Reqs :
        inflight[k][q] > 0 =>
            /\ ENABLED handle_request(k, q, TRUE)
            /\ \A r \in Reqs :
                   (cst[k] = "open" /\ creader[k] = "run" /\ ClientSends(k, r))
                       => ENABLED read_request(k, r)

\* C29 witness: the response of the second request was written to the socket
\* while the first request, read before it, is still in flight.
C29_Witness ==
    \E k \in Conns :
        inflight[k][1] > 0 /\ produced[1] = 0 /\ dispatched[2] > 0 /\ written[2] > 0

\* C34: the client's response buffer is bounded by a fixed capacity: however many
\* socket writes fail, it never holds as many responses as the client may have
\* requests in flight.
C34_BufferBounded ==
    Len(buffer) < MaxFrames

\* C37: once a write of a response to the socket has failed, or the writer task
\* has taken the Break of a connection that is closing, the writer takes the
\* responses from its channel oldest first (the channel holds them in the order
\* the handlers produced them) and puts each one at the end of the client's
\* buffer, the response whose write failed first; and the writer task has ended
\* only when no handler of the connection is in flight and its channel is empty.
C37_InFlightResponsesBuffered ==
    /\ [](\A k \in Conns :
              cwriter[k] = "done"
                  => rxw[k] = <<>> /\ \A r \in Reqs : inflight[k][r] = 0)
    /\ [][\A k \in Conns :
              /\ (cwriter[k] \in {"w1", "w2"} /\ cwriter'[k] = "w2"
                      /\ Len(rxw'[k]) < Len(rxw[k]))
                     => /\ rxw'[k] = Tail(rxw[k])
                        /\ buffer' = IF Head(rxw[k]) = 0 THEN buffer
                                     ELSE Append(buffer, Head(rxw[k]))
              /\ (cwriter[k] \in {"w1", "w2"} /\ Len(rxw'[k]) > Len(rxw[k]))
                     => SubSeq(rxw'[k], 1, Len(rxw[k])) = rxw[k]]_vars

C37_Witness ==
    \E k \in Conns :
        /\ write_err[k]
        /\ cwriter[k] = "w2"
        /\ Len(buffer) >= 2
        /\ rxw[k] = <<>>
        /\ creader[k] = "done"
        /\ \A r \in Reqs : inflight[k][r] = 0

(***************************************************************************)
(* Claims about the client, checked under SpecClient.                       *)
(***************************************************************************)
\* C3: when the first attempt of a write fails with a forward-to-leader error that
\* carries a leader id and a node, the caller makes exactly one further attempt
\* and gets that attempt's result, also while other callers of the same handle
\* handle the same leader change.
C3_RetryOnceAfterForwardToLeader ==
    \A p \in Callers :
        (/\ callpc[p] = "done"
         /\ first_err[p].kind = "forward"
         /\ first_err[p].id # 0
         /\ first_err[p].node)
            => attempts[p] = 2

\* C13: LeaderChange messages reach the stream manager in the order of the pointer
\* updates: once every caller that changed the pointer has sent its message, the
\* last LeaderChange message names the leader stored in the pointer.
C13_LastNotificationNamesLeader ==
    ((\A p \in Callers : callpc[p] # "notify") /\ tx_client # <<>>)
        => tx_client[Len(tx_client)] = leader

\* C14: there is one LeaderChange message, sent or about to be sent, for every
\* write that changed the leader pointer and none besides; a caller whose
\* forward-to-leader error lacks the leader id or the node changes nothing.
C14_OneNotificationPerLeaderChange ==
    /\ Len(tx_client) + Cardinality({p \in Callers : callpc[p] = "notify"}) = changes
    /\ \A p \in Callers :
           (/\ first_err[p].kind = "forward"
            /\ (first_err[p].id = 0 \/ ~first_err[p].node))
               => (~has_changed[p] /\ callpc[p] \notin {"notify", "req2"})

\* C14 witness: two callers got a forward-to-leader error naming the same new
\* leader; one changed the pointer and sent the only message, the other did not.
C14_Witness ==
    \E p, q \in Callers :
        /\ p # q
        /\ first_err[p].kind = "forward"
        /\ first_err[p] = first_err[q]
        /\ has_changed[p]
        /\ ~has_changed[q]
        /\ callpc[p] \in {"req2", "done"}
        /\ callpc[q] = "done"
        /\ tx_client = <<first_err[p].id>>
        /\ leader = first_err[p].id
        /\ changes = 1

\* C15: an attempt calls the local raft.client_write exactly when the client has
\* local state whose node id is the one in the leader pointer; every other
\* attempt sends one stream request with a request id not used before; no
\* attempt does both and nothing else does either.
C15_LocalWriteIffLocalLeader ==
    [][IF \E p \in Callers : attempts'[p] = attempts[p] + 1
       THEN IF state_id # 0 /\ state_id = leader
            THEN /\ local_writes' = local_writes + 1
                 /\ stream_reqs' = stream_reqs
            ELSE /\ local_writes' = local_writes
                 /\ Len(stream_reqs') = Len(stream_reqs) + 1
                 /\ SubSeq(stream_reqs', 1, Len(stream_reqs)) = stream_reqs
                 /\ \A i \in 1..Len(stream_reqs) :
                        stream_reqs[i] # stream_reqs'[Len(stream_reqs')]
       ELSE /\ local_writes' = local_writes
            /\ stream_reqs' = stream_reqs]_vars

\* C15 witness: a local client wrote locally, was forwarded, and sent its second
\* attempt over the stream.
C15_Witness ==
    /\ state_id # 0
    /\ local_writes > 0
    /\ stream_reqs # <<>>
    /\ \E p \in Callers : callpc[p] = "done" /\ attempts[p] = 2

\* C31: no client operation retries beyond the single leader-change retry: a call
\* makes at most two attempts, and send_with_retry sends again only after a
\* forward-to-leader error that changed the leader pointer.
C31_AtMostOneLeaderChangeRetry ==
    \A p \in Callers :
        /\ attempts[p] <= 2
        /\ (callpc[p] = "swr_send" /\ attempts[p] > 0)
               => (first_err[p].kind = "forward" /\ has_changed[p])

\* C38: the leader pointer of a client holds the API address of the node whose id
\* it holds, whatever errors the callers of execute have handled.
C38_LeaderPointerConsistent ==
    built => leader_addr = addr_api(leader)

\* C38 witness: the pointer was replaced twice and names a node other than the
\* one the client started with.
C38_Witness ==
    /\ built
    /\ changes >= 2
    /\ Len(tx_client) >= 2
    /\ leader # tx_client[1]

\* C30: the request ids a client handle has issued, in the order of issue, are
\* strictly increasing, so pairwise distinct, also when several callers of the
\* handle issue them, and the counter is above every id issued.
C30_RequestIdsStrictlyIncreasing ==
    /\ \A i, j \in 1..Len(stream_reqs) : i < j => stream_reqs[i] < stream_reqs[j]
    /\ \A i \in 1..Len(stream_reqs) : stream_reqs[i] < request_id

\* C30 witness: two callers of the handle have each sent a request over the
\* stream and neither call has returned.
C30_Witness ==
    /\ Len(stream_reqs) >= 2
    /\ \E p, q \in Callers :
           /\ p # q
           /\ attempts[p] > 0 /\ attempts[q] > 0
           /\ callpc[p] # "done" /\ callpc[q] # "done"
    /\ local_writes = 0

\* C16: an error that is no forward-to-leader error ends the call after its single
\* attempt: it is returned as it is, the leader pointer stays as it was and no
\* LeaderChange message is sent.
C16_OtherErrorReturnedUnchanged ==
    [][\A p \in Callers :
           (/\ callpc[p] = "update"
            /\ first_err[p].kind = "error"
            /\ callpc'[p] # "update")
               => /\ callpc'[p] = "done"
                  /\ attempts'[p] = 1
                  /\ ret'[p] = first_err[p]
                  /\ leader' = leader
                  /\ tx_client' = tx_client]_vars

\* C16 witness: a call has returned the other error of its only attempt.
C16_Witness ==
    \E p \in Callers :
        /\ callpc[p] = "done"
        /\ first_err[p].kind = "error"
        /\ ret[p] = first_err[p]
        /\ attempts[p] = 1

(***************************************************************************)
(* Claims about the payload variants, checked under SpecPayload.            *)
(***************************************************************************)
\* C11: the response to a request carries the result variant of the request's
\* kind, when client_write succeeds and when it returns an error.
C11_ResponseVariantMatchesRequest ==
    \A s \in Pending :
        pending[s].st = "answered" => pending[s].result = pending[s].payload

(***************************************************************************)
(* Claims about the reader worker, checked under SpecReader.                *)
(***************************************************************************)
\* C17: a single failed action (a storage error, a stored entry that does not
\* decode, a submitter that no longer waits for the answer) does not end the
\* worker: it goes on to handle the actions submitted later.
C17_WorkerSurvivesFailedAction ==
    rpc # "panicked"

\* C18: a read of [from, until) that returns Ok returns exactly the stored entries
\* with from <= index < until, in ascending order; the reader sends one
\* end-of-stream marker per action, and nothing after it.
C18_ReadReturnsExactlyTheRange ==
    /\ (rret.ok /\ rret.t = "Logs")
           => rret.entries = Ascending(read_entries(rsnap, rcur.from, rcur.until))
    /\ rmarkers <= 1
    /\ (rcur.t = "Logs" /\ rpc = "idle" /\ rq = NoRead) => rmarkers = 1
    /\ \A i \in 1..Len(rch) : (rch[i] = 0 /\ rcpc = "wait_logs") => i = Len(rch)

\* C18 witness: a read returned entries while the store held an entry at or
\* above `until`.
C18_Witness ==
    /\ rret.ok
    /\ rret.t = "Logs"
    /\ rret.entries # <<>>
    /\ \E i \in rsnap.logs : i >= rcur.until

(***************************************************************************)
(* Claims about the keys of "logs", checked under SpecKeys.                 *)
(***************************************************************************)
\* C19: the key encoding preserves the order and can be inverted: a < b exactly
\* when id_to_bin(a) sorts before id_to_bin(b) bytewise, and
\* bin_to_id(id_to_bin(a)) = a.
C19_KeyEncodingOrderPreserving ==
    /\ kpc \in {"compared", "decoded"} => (kless <=> id_a < id_b)
    /\ kpc = "decoded" => kdec = id_a

\* C19 witness: a pair whose order is decided by a higher byte against the order
\* of the lowest bytes has been encoded, compared and decoded.
C19_Witness ==
    /\ kpc = "decoded"
    /\ id_a < id_b
    /\ id_a % U8 > id_b % U8
    /\ kless
    /\ kdec = id_a

(***************************************************************************)
(* Claims about the shutdown of a local node, checked under SpecShutdown.   *)
(***************************************************************************)
\* C20: shutdown takes its steps in order, each after the one before it has
\* completed: cache Raft, SQL Raft, Shutdown to the SQL writer and its answer,
\* Shutdown to the log writer, broadcast.  The log writer is signalled only after
\* the SQL writer has answered, and shutdown returns Ok only after that answer.
C20_ShutdownStepsInOrder ==
    /\ raft_db = "stopped" => raft_cache = "stopped"
    /\ sql_writer # "running" => raft_db = "stopped"
    /\ logs_writer = "signalled" => sql_writer = "done"
    /\ tx_shutdown = "true" => (sql_writer = "done" /\ spc \notin {"sql_writer", "logs_writer"})
    /\ sret = "ok" => sql_writer = "done"

(***************************************************************************)
(* Claims about the management handlers, checked under SpecMembership.      *)
(***************************************************************************)
\* C21: add_learner, become_member and change_membership are gated by the
\* node-wide membership lock: no two of their Raft operations are in progress on
\* one node at the same time.
C21_MembershipChangesSerialized ==
    Cardinality({h \in Handlers : mpc[h] = "raft"}) <= 1

(***************************************************************************)
(* Claims about the cache, checked under SpecCache.                         *)
(***************************************************************************)
\* C22: after put(k, v) returned Ok a following get(k) of the same client returns
\* Some(v), after delete(k) returned Ok it returns None, when no other write to k
\* came in between; for the client of the leader, the client of a follower and a
\* remote client alike.
C22_GetReturnsOwnLastWrite ==
    (cgot.client # -1 /\ cgot.client = last_writer)
        => cgot.value = kv_after(cache_log, Len(cache_log))

(***************************************************************************)
(* Claims about the SQL tier, checked under SpecSql.                        *)
(***************************************************************************)
\* C23: after execute of a write returned Ok on a client, a query issued right
\* afterwards through the client of any other node observes the write.
C23_QuerySeesAcknowledgedWrite ==
    (sql_call.call = "execute" /\ sql_call.ret = "ok"
        /\ qres.client # 0 /\ qres.client # sql_call.client)
        => qres.found

C24_MigrationsIdempotent ==
    /\ sql_call.call = "good" => sql_call.ret = "ok"
    /\ (\A i \in 1..Len(sql_log) : sql_log[i].t = "Migration" => sql_log[i].set = "good")
           => \A n \in Nodes :
                  /\ Len(sqlite[n].migrations) \in {0, Len(Migrations("good"))}
                  /\ \A j \in 1..Len(sqlite[n].migrations) :
                         sqlite[n].migrations[j] = AppliedMigration(Migrations("good")[j])

\* C25: applying a migration set with one migration of invalid SQL returns an
\* error and applies nothing: no node shows a table of that set, the earlier valid
\* migration included, and _migrations has no row of that set.
C25_BadMigrationAppliesNothing ==
    /\ sql_call.call = "bad" => sql_call.ret = "err"
    /\ \A n \in Nodes :
           /\ sqlite[n].tables \cap {"bad_1", "bad_2"} = {}
           /\ \A j \in 1..Len(sqlite[n].migrations) :
                  sqlite[n].migrations[j].hash \notin {"bad/1", "bad/2"}

\* C39: every client id that passes the stream handshake has a response buffer on
\* the server: no connection task of an authenticated client, local or remote with
\* whatever node_id, is aborted at the lookup of the buffer.
C39_EveryClientHasBuffer ==
    \A p \in Callers : rc_st[p] # "aborted"

(***************************************************************************)
(* Claims about the log store, checked under SpecLog.                       *)
(***************************************************************************)
Pos(h, kinds) == {i \in 1..Len(h) : h[i].e \in kinds}

\* C4: every entry of an append that was acknowledged as successful and whose
\* flushed-callback was invoked is in the log after a process crash and restart
\* (unless a later truncate or purge removed it).
C4_FlushedEntriesSurviveCrash ==
    crashes > 0 => flushedEntries \subseteq db.logs

\* C5: append returns Ok only if every entry was written successfully; a failed
\* put_cf of any entry, the last one included, makes append return an error.
C5_AppendOkOnlyIfAllWritten ==
    appRet = "ok" => ~appWriteFailed

\* C6: when a write of an Append action fails the writer sends the error on the
\* ack and never invokes the flushed-callback; the callback is invoked only for
\* an append whose writes all succeeded and whose ack carried Ok.
C6_CallbackOnlyAfterAllWritesOk ==
    /\ Pos(hist, {"cb"}) # {} =>
          /\ Pos(hist, {"fail"}) = {}
          /\ \E a \in Pos(hist, {"ack"}) : hist[a].i = 1
    /\ Pos(hist, {"fail"}) # {} =>
          /\ Pos(hist, {"cb"}) = {}
          /\ \A a \in Pos(hist, {"ack"}) : hist[a].i = 0
          /\ wpc = "idle" => Pos(hist, {"ack"}) # {}

\* C6 witness: an Append action is over, one of its writes failed, the error went
\* out on the ack and no callback was invoked.
C6_Witness ==
    /\ wpc = "idle"
    /\ Pos(hist, {"fail"}) # {}
    /\ Pos(hist, {"ack"}) # {}
    /\ Pos(hist, {"cb"}) = {}

\* C7: for an Append action the writer writes the pairs in arrival order, then
\* sends the ack, then invokes the callback: no write after the ack, no callback
\* before the ack, at most one ack and one callback, and exactly one callback
\* once the handler of a successful append is over.
C7_WriteAckCallbackOrder ==
    LET W == Pos(hist, {"put", "fail"})
        A == Pos(hist, {"ack"})
        C == Pos(hist, {"cb"})
    IN  /\ \A w \in W, a \in A : w < a
        /\ \A a \in A, c \in C : a < c
        /\ Cardinality(A) <= 1
        /\ Cardinality(C) <= 1
        /\ C # {} => A # {}
        /\ \A w \in W : hist[w].i = hist[1].i + w - 1
        /\ (wpc = "idle" /\ \E a \in A : hist[a].i = 1) => Cardinality(C) = 1

\* C7 witness: an append of two entries was written in order, acked and then
\* reported as flushed.
C7_Witness ==
    /\ wpc = "idle"
    /\ Len(hist) = 4
    /\ hist[1].e = "put" /\ hist[2].e = "put"
    /\ hist[3].e = "ack" /\ hist[4].e = "cb"

\* C35: in every result of get_log_state the last log id is not behind the last
\* purged log id: when last_purged_log_id is Some(k), last_log_id is Some with an
\* index of at least k, also when a purge has removed every entry of the log.
C35_LastLogNotBehindPurged ==
    LET state == get_log_state(db) IN
        state.last_purged_log_id # 0
            => state.last_log_id >= state.last_purged_log_id

\* C40: truncate(from) removes exactly the entries with index >= from: when it
\* returns Ok no such entry is stored, and while it runs every entry with a lower
\* index, the stored vote and the stored last_purged stay as they are (a crash of
\* the process apart, which loses what was not flushed).
C40_TruncateRemovesExactlyFrom ==
    /\ []((cpc = "rm_wait" /\ cop.t = "truncate" /\ ack = "ok")
              => \A i \in db.logs : i < cop.arg)
    /\ [][(cpc = "rm_wait" /\ cop.t = "truncate" /\ crashes' = crashes)
              => /\ {i \in db'.logs : i < cop.arg} = {i \in db.logs : i < cop.arg}
                 /\ db'.vote = db.vote
                 /\ db'.last_purged = db.last_purged]_vars

C40_Witness ==
    /\ cpc = "rm_wait"
    /\ cop.t = "truncate"
    /\ cop.arg = 2
    /\ ack = "ok"
    /\ db.logs = {1}
    /\ db.vote # 0

\* C8: the range deletion of a purge and the update of last_purged take effect
\* atomically: whenever the writer is not inside a Remove action, the stored
\* last_purged is the highest index a purge has deleted through, and no entry
\* with index <= last_purged is stored.
C8_PurgeAtomic ==
    wpc # "remove2" =>
        /\ db.purge_deleted = db.last_purged
        /\ \A i \in db.logs : i > db.last_purged

C10_AckedVoteSurvivesCrash ==
    (crashes > 0 /\ atCrash.vote > 0) => read_vote(db) >= atCrash.vote

=============================================================================
